---- MODULE Spec2Model ----
(***************************************************************************)
(* Model of the reconciliation core of the Polar Terraform provider        *)
(* (internal/provider): the consistency pollers pollForConsistency and     *)
(* waitForReadConsistency, and the supplemental-HTTP retrier doWithRetry.  *)
(*                                                                         *)
(* Every function is modelled as a small state machine whose steps are    *)
(* cut at the points where the Go code blocks (a call of the injected     *)
(* fetch / fn closure, a select on ctx.Done() and time.After()).  The      *)
(* variable callee names the function the caller invoked; the variables   *)
(* of the other functions keep their idle values.                         *)
(***************************************************************************)
EXTENDS Integers, Naturals, Sequences, FiniteSets, TLC

VARIABLES
    callee,            \* the function under execution
    ctxDone,           \* ctx.Done() is closed
    ctxErr,            \* ctx.Err(): "nil" until the context is cancelled
    diags,             \* *diag.Diagnostics: sequence of warning diagnostics
    fetchCount,        \* number of invocations of fetch / Organizations.Get
    \* ---- pollForConsistency (helpers.go) ----
    writeTimestamp,    \* parameter writeTimestamp
    pollI,             \* loop variable i
    pollPc,            \* "fetch" | "select" | "done" | "idle"
    last,              \* var last T
    hasResult,         \* var hasResult bool
    lastRejectReason,  \* var lastRejectReason string
    pollRet,           \* the returned (T, error)
    fetchLog,          \* history: the class of every fetch outcome so far (poller on its own)
    lastFetched,       \* history: the outcome of the most recent fetch
    \* ---- OrganizationResource.waitForReadConsistency ----
    planned,           \* parameter planned *OrganizationResourceModel
    waitI,             \* loop variable i
    waitPc,            \* "fetch" | "select" | "done" | "idle"
    lastOrg,           \* var lastOrg *components.Organization
    waitRet,           \* the returned (*components.Organization, error)
    \* ---- doWithRetry (resource_organization_sdk.go, and its later revision) ----
    attempt,           \* loop variable attempt
    retryPc,           \* "call" | "select" | "done" | "idle"
    backoff,           \* the local backoff of the current wait
    retryRet,          \* the returned error
    calls,             \* history: number of invocations of fn
    statusLog,         \* history: the status codes fn's responses carried
    waits,             \* history: the backoff of every completed or started wait
    elapsed,           \* history: the time spent in completed waits
    closes,            \* history: per response obtained, the calls of resp.Body.Close()
    \* ---- the helpers of the product and organization resources ----
    fnArgs,            \* the arguments of the helper under call
    fnPc,              \* "call" | "done" | "idle"
    fnRet,             \* what the helper returned
    \* ---- ProductResource.Create (resource_product.go) ----
    createPc,          \* "prefetch" | "build" | "create" | "save" | "benefits" | "poll" | "read" | "delete" | "done" | "idle"
    plan,              \* var data: the model read from the plan (or the state), as the handler fills it
    dataID,            \* data.ID
    createResult,      \* result.Product of Products.Create
    stateID,           \* the id attribute of resp.State (null while the state is not set)
    respErrors,        \* the error diagnostics of resp.Diagnostics
    createCalls,       \* history: number of calls of the primary write
    benefitCalls,      \* history: number of calls of the supplemental write
    state,             \* resp.State: Nil, or the model set and (history) the response it was mapped from
    remoteLog,         \* history: the remote calls of the handler, pollers apart
    \* ---- PolarProviderData.ClaimOrganization (provider.go) ----
    orgOnce,           \* pd.orgOnce: its done flag and the goroutine holding its mutex
    orgID,             \* pd.orgID
    claimArg,          \* per goroutine: the id it passes
    claimPc,           \* per goroutine: "do" | "slow" | "f" | "unlock" | "check" | "done"
    claimRet           \* per goroutine: the returned error

pollVars == <<writeTimestamp, pollI, pollPc, last, hasResult, lastRejectReason,
              pollRet, fetchLog, lastFetched>>
ctxVars  == <<ctxDone, ctxErr>>
waitVars == <<planned, waitI, waitPc, lastOrg, waitRet>>
retryVars == <<attempt, retryPc, backoff, retryRet, calls, statusLog, waits, elapsed,
               closes>>
fnVars   == <<fnArgs, fnPc, fnRet>>
createVars == <<createPc, plan, dataID, createResult, stateID, respErrors,
                createCalls, benefitCalls, state, remoteLog>>
\* The variables of the product resource and of the helpers.
claimVars == <<orgOnce, orgID, claimArg, claimPc, claimRet>>
productVars == <<fnVars, createVars, claimVars>>
vars     == <<callee, ctxVars, diags, fetchCount, pollVars, waitVars, retryVars,
              productVars>>

(***************************************************************************)
(* Bounds of the model.                                                    *)
(***************************************************************************)
MaxTime == 2                      \* server timestamps range over 0..MaxTime
MaxSlack == 1                     \* a timer fires up to MaxSlack units late

Times   == 0 .. MaxTime

(***************************************************************************)
(* Program constants.                                                      *)
(***************************************************************************)
pollMaxAttempts == 10
maxAttempts     == 5
\* Durations are counted in microseconds (time.Duration counts nanoseconds;
\* every duration of the model is a whole number of microseconds).
Millisecond     == 1000
initialBackoff  == 500 * Millisecond

(***************************************************************************)
(* Values.                                                                 *)
(***************************************************************************)
NoTime  == -1                     \* GetModifiedAt() == nil
\* A Timestamped resource as the poller sees it.
Results == [createdAt : Times, modifiedAt : Times \cup {NoTime}]
\* "var zero T": the zero value of the (pointer) result type.
Zero    == [createdAt |-> NoTime, modifiedAt |-> NoTime]

NoErr        == "nil"
ErrNotFound  == "apierrors.ResourceNotFound"
ErrOther     == "other fetch error"
ErrNotReadable == "not readable after polls"
CtxErrs      == {"context canceled", "context deadline exceeded"}

\* What one invocation of fetch can return: (T, error).
FetchOutcomes ==
    [val : Results, err : {NoErr}] \cup [val : {Zero}, err : {ErrNotFound, ErrOther}]

\* latestTimestamp returns ModifiedAt if present, otherwise CreatedAt.
latestTimestamp(t) ==
    IF t.modifiedAt # NoTime THEN t.modifiedAt ELSE t.createdAt

\* Variant: "not after" in place of "before".
Before_notAfter(a, b) == a <= b

\* time.Time.Before
Before(a, b) == a < b

\* Variant: every error counts as "not found".
isNotFound_anyError(err) == err # NoErr

\* isNotFound: errors.As(err, *apierrors.ResourceNotFound)
isNotFound(err) == err = ErrNotFound

\* The warning added by diags.AddWarning when polling did not converge.
ConsistencyWarning(reason) ==
    [summary |-> "Eventual consistency timeout", reason |-> reason]

\* History only: the class of a fetch outcome, as the claims name it.
OutcomeClass(o, wts) ==
    IF o.err = ErrNotFound THEN "notfound"
    ELSE IF o.err # NoErr THEN "error"
    ELSE IF latestTimestamp(o.val) < wts THEN "stale"
    ELSE "fresh"

(***************************************************************************)
(* Terraform framework values (types.String, types.Bool) and the parts of  *)
(* the organization the consistency check of the organization resource     *)
(* looks at.                                                               *)
(***************************************************************************)
Names       == {"acme", "globex"}             \* organization names
Prorations  == {"invoice", "prorate"}         \* proration_behavior values

StringNull      == [isNull |-> TRUE,  v |-> ""]
StringValue(s)  == [isNull |-> FALSE, v |-> s]
BoolValue(b)    == [isNull |-> FALSE, v |-> b]
\* ValueString() / ValueBool() return the zero value for a null.
ValueString(x)  == x.v
ValueBool(x)    == x.v
\* The attributes inside a settings block are Required in the schema
\* (resource_organization.go:150-250), so a block that is set holds values.
TfBools         == {BoolValue(TRUE), BoolValue(FALSE)}

Nil == [nil |-> TRUE]                         \* a nil pointer to a struct

\* *bool of the SDK: "nil", "true" or "false".
PtrBools == {"nil", "true", "false"}
\* derefBool safely dereferences a *bool, returning false if nil.
derefBool(b) == b = "true"

\* components.Organization, restricted to the fields isConsistent reads.
Organizations ==
    [name              : Names,
     featureSettings   : {Nil} \cup [issueFundingEnabled : PtrBools],
     prorationBehavior : Prorations,
     newOrder          : BOOLEAN,
     orderConfirmation : BOOLEAN]

\* OrganizationResourceModel, restricted to the fields isConsistent reads.
PlannedModels ==
    [name                  : {StringNull} \cup {StringValue(n) : n \in Names},
     featureSettings       : {Nil} \cup [issueFundingEnabled : TfBools],
     subscriptionSettings  : {Nil} \cup
         [prorationBehavior : {StringValue(p) : p \in Prorations}],
     notificationSettings  : {Nil} \cup [newOrder : TfBools],
     customerEmailSettings : {Nil} \cup [orderConfirmation : TfBools]]

NilOrg     == [isNil |-> TRUE]                \* (*components.Organization)(nil)
NilPlanned == [isNil |-> TRUE]

\* isConsistent checks whether the API response matches the planned values
\* (resource_organization.go:477-502).
isConsistent(org, pl) ==
    IF ~pl.name.isNull /\ org.name # ValueString(pl.name) THEN FALSE
    ELSE IF /\ pl.featureSettings # Nil
            /\ org.featureSettings # Nil
            /\ derefBool(org.featureSettings.issueFundingEnabled)
                   # ValueBool(pl.featureSettings.issueFundingEnabled) THEN FALSE
    ELSE IF /\ pl.subscriptionSettings # Nil
            /\ org.prorationBehavior
                   # ValueString(pl.subscriptionSettings.prorationBehavior) THEN FALSE
    ELSE IF /\ pl.notificationSettings # Nil
            /\ org.newOrder # ValueBool(pl.notificationSettings.newOrder) THEN FALSE
    ELSE IF /\ pl.customerEmailSettings # Nil
            /\ org.orderConfirmation
                   # ValueBool(pl.customerEmailSettings.orderConfirmation) THEN FALSE
    ELSE TRUE

\* What one call of Organizations.Get can return.
GetOutcomes ==
    [org : Organizations, err : {NoErr}] \cup [org : {NilOrg}, err : {ErrNotFound, ErrOther}]

\* The warning waitForReadConsistency adds when the read-back never matched.
ReadBackWarning ==
    [summary |-> "Eventual consistency timeout", reason |-> "did not match planned values"]

(***************************************************************************)
(* Decimal strings and strconv.ParseFloat / strconv.FormatFloat.           *)
(*                                                                         *)
(* A string whose characters matter (a unit amount, a URL) is a sequence   *)
(* of one-character strings.  The unit amounts of the model are unsigned   *)
(* decimal literals (digits with at most one point) and strings that are   *)
(* no number at all; they hold no sign, exponent, hexadecimal prefix,      *)
(* infinity or NaN.                                                        *)
(*                                                                         *)
(* A float64 is identified by the shortest decimal that denotes it:        *)
(* [m |-> its digits without leading and trailing zeros, e |-> the power   *)
(* of ten that scales them].  Two decimals of at most 15 significant       *)
(* digits denote different float64 values, so ParseFloat keeps such a      *)
(* decimal; a 16-digit integer from 2^53 on has one bit more than the      *)
(* 53-bit mantissa holds and is rounded to the nearest even mantissa.      *)
(***************************************************************************)
\* The strings of the model, by their text.
Chars ==
    ("" :> <<>>)
    @@ ("abc" :> <<"a", "b", "c">>)
    @@ ("0.5" :> <<"0", ".", "5">>)
    @@ ("0.50" :> <<"0", ".", "5", "0">>)
    @@ ("0.500000000000" :>
            <<"0", ".", "5", "0", "0", "0", "0", "0", "0", "0", "0", "0", "0", "0">>)
    @@ ("0.6" :> <<"0", ".", "6">>)
    @@ ("1" :> <<"1">>)
    @@ ("1.0" :> <<"1", ".", "0">>)
    @@ ("1.00" :> <<"1", ".", "0", "0">>)
    @@ ("2" :> <<"2">>)
    @@ ("100" :> <<"1", "0", "0">>)
    @@ ("9007199254740992" :>
            <<"9", "0", "0", "7", "1", "9", "9", "2", "5", "4", "7", "4", "0", "9", "9", "2">>)
    @@ ("9007199254740993" :>
            <<"9", "0", "0", "7", "1", "9", "9", "2", "5", "4", "7", "4", "0", "9", "9", "3">>)
    @@ ("9007199254740994" :>
            <<"9", "0", "0", "7", "1", "9", "9", "2", "5", "4", "7", "4", "0", "9", "9", "4">>)
    @@ ("9007199254740995" :>
            <<"9", "0", "0", "7", "1", "9", "9", "2", "5", "4", "7", "4", "0", "9", "9", "5">>)
    @@ ("/" :> <<"/">>)
    @@ ("x://a" :> <<"x", ":", "/", "/", "a">>)
    @@ ("x://a/" :> <<"x", ":", "/", "/", "a", "/">>)
    @@ ("x://a//" :> <<"x", ":", "/", "/", "a", "/", "/">>)
    @@ ("x://b" :> <<"x", ":", "/", "/", "b">>)
    @@ ("x://b/" :> <<"x", ":", "/", "/", "b", "/">>)
    @@ ("x://a/b" :> <<"x", ":", "/", "/", "a", "/", "b">>)

DigitChars == <<"0", "1", "2", "3", "4", "5", "6", "7", "8", "9">>

\* The decimal of the digits d scaled by 10^e, without leading and trailing
\* zeros: [m, e] with the same value.
Normalize(d, e) ==
    LET nz == {k \in 1 .. Len(d) : d[k] # 0}
    IN  IF nz = {} THEN [m |-> <<>>, e |-> 0]
        ELSE LET lo == CHOOSE k \in nz : \A n \in nz : k <= n
                 hi == CHOOSE k \in nz : \A n \in nz : n <= k
             IN  [m |-> SubSeq(d, lo, hi), e |-> e + (Len(d) - hi)]

\* The decimal a literal denotes: [ok, m, e], the value being m * 10^e.
ParseDecimal(s) ==
    LET points   == {k \in 1 .. Len(s) : s[k] = "."}
        p        == IF points = {} THEN 0
                    ELSE CHOOSE k \in points : \A n \in points : k <= n
        intPart  == IF p = 0 THEN s ELSE SubSeq(s, 1, p - 1)
        fracPart == IF p = 0 THEN <<>> ELSE SubSeq(s, p + 1, Len(s))
        digits   == intPart \o fracPart
        IsDigit(c)  == \E k \in 1 .. 10 : DigitChars[k] = c
        DigitVal(c) == (CHOOSE k \in 1 .. 10 : DigitChars[k] = c) - 1
    IN  IF digits = <<>> \/ \E k \in 1 .. Len(digits) : ~IsDigit(digits[k])
        THEN [ok |-> FALSE, m |-> <<>>, e |-> 0]
        ELSE LET n == Normalize([k \in 1 .. Len(digits) |-> DigitVal(digits[k])],
                                0 - Len(fracPart))
             IN  [ok |-> TRUE, m |-> n.m, e |-> n.e]

\* Round the decimal dec to the nearest float64, ties to the even mantissa.
\* An integer n of 16 digits, 2^53 <= n < 2^54, lies between float64 values
\* that are 2 apart: an even n is a float64, an odd n is a tie between n-1
\* and n+1, of which the multiple of 4 has the even mantissa.
RoundToFloat64(dec) ==
    LET exactDigits == 15
        twoTo53 == <<9, 0, 0, 7, 1, 9, 9, 2, 5, 4, 7, 4, 0, 9, 9, 2>>
        all     == dec.m \o [k \in 1 .. dec.e |-> 0]
        n       == Len(all)
        geq     == \/ all = twoTo53
                   \/ \E k \in 1 .. n : /\ all[k] > twoTo53[k]
                                        /\ \A i \in 1 .. (k - 1) : all[i] = twoTo53[i]
        lastTwo == 10 * all[n - 1] + all[n]
        down    == [all EXCEPT ![n] = @ - 1]
        below9  == {k \in 1 .. n : all[k] < 9}
        up      == IF below9 = {} THEN <<1>> \o [k \in 1 .. n |-> 0]
                   ELSE LET c == CHOOSE k \in below9 : \A i \in below9 : i <= k
                        IN  [k \in 1 .. n |->
                                IF k < c THEN all[k] ELSE IF k = c THEN all[k] + 1 ELSE 0]
    IN  IF Len(dec.m) <= exactDigits THEN [m |-> dec.m, e |-> dec.e]
        ELSE IF dec.e >= 0 /\ n = Len(twoTo53) /\ geq
        THEN IF lastTwo % 2 = 0 THEN Normalize(all, 0)
             ELSE IF (lastTwo - 1) % 4 = 0 THEN Normalize(down, 0)
             ELSE Normalize(up, 0)
        ELSE [m |-> dec.m, e |-> dec.e]

\* strconv.ParseFloat(s, 64): [ok, f]; ok = FALSE stands for err != nil.
ParseFloat(s) ==
    [ok |-> ParseDecimal(s).ok, f |-> RoundToFloat64(ParseDecimal(s))]

\* strconv.FormatFloat(f, 'f', -1, 64): the shortest decimal that denotes f,
\* written without an exponent.
FormatFloat(f) ==
    LET ds == [k \in 1 .. Len(f.m) |-> DigitChars[f.m[k] + 1]]
        n  == Len(ds)
    IN  IF n = 0 THEN <<"0">>
        ELSE IF f.e >= 0 THEN ds \o [k \in 1 .. f.e |-> "0"]
        ELSE IF n > 0 - f.e
        THEN SubSeq(ds, 1, n + f.e) \o <<".">> \o SubSeq(ds, n + f.e + 1, n)
        ELSE <<"0", ".">> \o [k \in 1 .. (0 - f.e) - n |-> "0"] \o ds

\* normalizeDecimalString strips trailing zeros from a decimal string
\* (resource_product_sdk.go:524-530).
normalizeDecimalString(s) ==
    IF ~ParseFloat(s).ok THEN s ELSE FormatFloat(ParseFloat(s).f)

\* numericStringsEqual compares two decimal strings by numeric value
\* (resource_product_sdk.go:534-538).
numericStringsEqual(a, b) ==
    LET af == ParseFloat(a)
        bf == ParseFloat(b)
    IN  af.ok /\ bf.ok /\ af.f = bf.f

(***************************************************************************)
(* Price models (resource_product.go:60-73).                               *)
(***************************************************************************)
StringUnknown   == [isNull |-> FALSE, isUnknown |-> TRUE, v |-> ""]
\* The null types.String of an attribute whose value is a sequence of
\* characters in the model (unit_amount, website).
SeqStringNull   == [isNull |-> TRUE, v |-> <<>>]
Int64Null       == [isNull |-> TRUE,  v |-> 0]
Int64Value(n)   == [isNull |-> FALSE, v |-> n]

\* nullPriceModel creates a PriceModel with all optional fields set to null
\* (resource_product_sdk.go:474-486).
nullPriceModel(amountType, currency) ==
    [amountType    |-> StringValue(amountType),
     priceCurrency |-> currency,
     priceAmount   |-> Int64Null,
     minimumAmount |-> Int64Null,
     maximumAmount |-> Int64Null,
     presetAmount  |-> Int64Null,
     meterID       |-> StringNull,
     unitAmount    |-> SeqStringNull,
     capAmount     |-> Int64Null]

\* The price models of the four amount types, the fields of the other types
\* null.
FixedPrice(currency, amount) ==
    [nullPriceModel("fixed", currency) EXCEPT !.priceAmount = amount]
FreePrice(currency) == nullPriceModel("free", currency)
CustomPrice(currency, minimum, maximum, preset) ==
    [nullPriceModel("custom", currency) EXCEPT
        !.minimumAmount = minimum, !.maximumAmount = maximum, !.presetAmount = preset]
MeteredPrice(currency, meter, unit, cap) ==
    [nullPriceModel("metered_unit", currency) EXCEPT
        !.meterID = StringValue(meter), !.unitAmount = StringValue(unit),
        !.capAmount = cap]

\* optionalInt64Equal (resource_product_sdk.go:358-366); ValueInt64() of a
\* null is 0.
optionalInt64Equal(a, b) ==
    IF a.isNull /\ b.isNull THEN TRUE
    ELSE IF a.isNull # b.isNull THEN FALSE
    ELSE a.v = b.v

\* pricesMatch compares the user-specified fields of two price models
\* (resource_product_sdk.go:326-356).
pricesMatch(pl, ex) ==
    IF ValueString(pl.amountType) # ValueString(ex.amountType) THEN FALSE
    ELSE IF ValueString(pl.amountType) = "fixed"
    THEN IF pl.priceAmount.v # ex.priceAmount.v THEN FALSE
         ELSE IF /\ ~pl.priceCurrency.isNull
                 /\ pl.priceCurrency # StringUnknown
                 /\ ValueString(pl.priceCurrency) # ValueString(ex.priceCurrency)
         THEN FALSE
         ELSE TRUE
    ELSE IF ValueString(pl.amountType) = "free" THEN TRUE
    ELSE IF ValueString(pl.amountType) = "custom"
    THEN /\ optionalInt64Equal(pl.minimumAmount, ex.minimumAmount)
         /\ optionalInt64Equal(pl.maximumAmount, ex.maximumAmount)
         /\ optionalInt64Equal(pl.presetAmount, ex.presetAmount)
    ELSE IF ValueString(pl.amountType) = "metered_unit"
    THEN IF ValueString(pl.meterID) # ValueString(ex.meterID) THEN FALSE
         ELSE IF ~numericStringsEqual(ValueString(pl.unitAmount),
                                      ValueString(ex.unitAmount)) THEN FALSE
         ELSE optionalInt64Equal(pl.capAmount, ex.capAmount)
    ELSE FALSE

(***************************************************************************)
(* The context.  Cancellation (or the deadline) can happen at any moment   *)
(* while the callee runs.                                                  *)
(***************************************************************************)
CtxInit == ctxDone = FALSE /\ ctxErr = NoErr

CtxCancel(e) ==
    /\ ~ctxDone
    /\ ctxDone' = TRUE
    /\ ctxErr' = e

(***************************************************************************)
(* Idle values of the variables of a function that is not running.         *)
(***************************************************************************)
PollIdle ==
    /\ writeTimestamp = 0
    /\ pollI = 0
    /\ pollPc = "idle"
    /\ last = Zero
    /\ hasResult = FALSE
    /\ lastRejectReason = ""
    /\ pollRet = [val |-> Zero, err |-> NoErr]
    /\ fetchLog = <<>>
    /\ lastFetched = [val |-> Zero, err |-> NoErr]

WaitIdle ==
    /\ planned = NilPlanned
    /\ waitI = 0
    /\ waitPc = "idle"
    /\ lastOrg = NilOrg
    /\ waitRet = [org |-> NilOrg, err |-> NoErr]

RetryIdle ==
    /\ attempt = 0
    /\ retryPc = "idle"
    /\ backoff = 0
    /\ retryRet = [msg |-> "nil", status |-> 0]
    /\ calls = 0
    /\ statusLog = <<>>
    /\ waits = <<>>
    /\ elapsed = 0
    /\ closes = <<>>

FnIdle ==
    /\ fnArgs = <<>>
    /\ fnPc = "idle"
    /\ fnRet = <<>>

\* (*components.Product)(nil)
NoProduct == [isNil |-> TRUE]

CreateIdle ==
    /\ createPc = "idle"
    /\ plan = Nil
    /\ dataID = StringNull
    /\ createResult = NoProduct
    /\ stateID = StringNull
    /\ respErrors = <<>>
    /\ createCalls = 0
    /\ benefitCalls = 0
    /\ state = Nil
    /\ remoteLog = <<>>

\* A PolarProviderData nobody has claimed on.
ClaimIdle ==
    /\ orgOnce = [done |-> FALSE, m |-> 0]
    /\ orgID = ""
    /\ claimArg = <<>>
    /\ claimPc = <<>>
    /\ claimRet = <<>>

ProductIdle == FnIdle /\ CreateIdle /\ ClaimIdle

(***************************************************************************)
(* pollForConsistency (helpers.go:116-173)                                 *)
(***************************************************************************)
\* The handlers that write a product or the organization.
ProductHandlers      == {"ProductResource.Create", "ProductResource.Update"}
OrganizationHandlers == {"OrganizationResource.Create", "OrganizationResource.Update"}

\* pollForConsistency runs on its own or inside Create and Update of a
\* product (resource_product.go:394, 511); waitForReadConsistency on its own
\* or inside Create and Update of the organization
\* (resource_organization.go:321, 405).  pollForVisibility
\* (unnamed/part_011:52-89), the poller of an earlier revision, runs on its
\* own, through the steps of waitForReadConsistency.
PollCallers == {"pollForConsistency"} \cup ProductHandlers
WaitCallers == {"waitForReadConsistency", "pollForVisibility"} \cup OrganizationHandlers

\* Entry of pollForConsistency: the locals hold their zero values and the
\* first iteration (i = 0) goes to fetch without waiting.
PollInit ==
    /\ callee = "pollForConsistency"
    /\ CtxInit
    /\ diags = <<>>
    /\ fetchCount = 0
    /\ writeTimestamp \in Times
    /\ pollI = 0
    /\ pollPc = "fetch"
    /\ last = Zero
    /\ hasResult = FALSE
    /\ lastRejectReason = ""
    /\ pollRet = [val |-> Zero, err |-> NoErr]
    /\ fetchLog = <<>>
    /\ lastFetched = [val |-> Zero, err |-> NoErr]
    /\ WaitIdle
    /\ RetryIdle
    /\ ProductIdle

\* Variant: exhaustion is always a hard error (no soft timeout).
PollAfterLoop_alwaysError(lastV, hasV, reasonV) ==
    /\ pollRet' = [val |-> Zero, err |-> ErrNotReadable]
    /\ diags' = diags

\* Variant: exhaustion never looks at hasResult.
PollAfterLoop_ignoreHasResult(lastV, hasV, reasonV) ==
    /\ pollRet' = [val |-> lastV, err |-> NoErr]
    /\ diags' = Append(diags, ConsistencyWarning(reasonV))

\* Variant: the stale result is returned without the warning.
PollAfterLoop_silent(lastV, hasV, reasonV) ==
    IF ~hasV
    THEN /\ pollRet' = [val |-> Zero, err |-> ErrNotReadable]
         /\ diags' = diags
    ELSE /\ pollRet' = [val |-> lastV, err |-> NoErr]
         /\ diags' = diags

\* The code after the loop (helpers.go:153-172), with the values the locals
\* have when the loop ends.
PollAfterLoop(lastV, hasV, reasonV) ==
    IF ~hasV
    THEN /\ pollRet' = [val |-> Zero, err |-> ErrNotReadable]
         /\ diags' = diags
    ELSE /\ pollRet' = [val |-> lastV, err |-> NoErr]
         /\ diags' = Append(diags, ConsistencyWarning(reasonV))

\* "continue": i++, then the loop condition; a further iteration starts in
\* the select because i > 0.
PollContinue(lastV, hasV, reasonV) ==
    /\ pollI' = pollI + 1
    /\ last' = lastV
    /\ hasResult' = hasV
    /\ lastRejectReason' = reasonV
    /\ IF pollI + 1 < pollMaxAttempts
       THEN /\ pollPc' = "select"
            /\ UNCHANGED <<pollRet, diags>>
       ELSE /\ pollPc' = "done"
            /\ PollAfterLoop(lastV, hasV, reasonV)

PollReturn(v, e) ==
    /\ pollPc' = "done"
    /\ pollRet' = [val |-> v, err |-> e]
    /\ UNCHANGED <<pollI, diags>>

\* The loop body after result, err := fetch() (helpers.go:131-150).
PollLoopBody(o) ==
    IF o.err # NoErr
    THEN IF isNotFound(o.err)
         THEN PollContinue(last, hasResult, "resource not found")
         ELSE /\ PollReturn(Zero, o.err)
              /\ UNCHANGED <<last, hasResult, lastRejectReason>>
    ELSE IF Before(latestTimestamp(o.val), writeTimestamp)
         THEN PollContinue(o.val, TRUE, "stale read (timestamp before write)")
         ELSE /\ PollReturn(o.val, NoErr)
              /\ last' = o.val
              /\ hasResult' = TRUE
              /\ UNCHANGED lastRejectReason

\* Variant: a zero writeTimestamp is taken as "nothing to wait for" and the
\* poller returns before its first fetch.
PollFetch_skipOnZeroTimestamp(o) ==
    /\ callee \in PollCallers
    /\ pollPc = "fetch"
    /\ IF pollI = 0 /\ writeTimestamp = 0
       THEN /\ PollReturn(last, NoErr)
            /\ UNCHANGED <<fetchCount, fetchLog, lastFetched, last, hasResult,
                           lastRejectReason>>
       ELSE /\ fetchCount' = fetchCount + 1
            /\ fetchLog' = IF callee = "pollForConsistency"
                           THEN Append(fetchLog, OutcomeClass(o, writeTimestamp))
                           ELSE fetchLog
            /\ lastFetched' = o
            /\ PollLoopBody(o)
    /\ UNCHANGED <<callee, ctxVars, writeTimestamp, waitVars, retryVars, productVars>>

\* result, err := fetch() (helpers.go:130) and the loop body that follows.
PollFetch(o) ==
    /\ callee \in PollCallers
    /\ pollPc = "fetch"
    /\ fetchCount' = fetchCount + 1
    /\ fetchLog' = IF callee = "pollForConsistency"
                   THEN Append(fetchLog, OutcomeClass(o, writeTimestamp))
                   ELSE fetchLog
    /\ lastFetched' = o
    /\ PollLoopBody(o)
    /\ UNCHANGED <<callee, ctxVars, writeTimestamp, waitVars, retryVars, productVars>>

\* select: case <-ctx.Done(): return zero, ctx.Err()
\* The timer of time.After(pollInterval) is created on entry of the select,
\* so a context that is done wins the select.
PollSelectDone ==
    /\ callee \in PollCallers
    /\ pollPc = "select"
    /\ ctxDone
    /\ PollReturn(Zero, ctxErr)
    /\ UNCHANGED <<callee, ctxVars, fetchCount, writeTimestamp, last, hasResult,
                   lastRejectReason, fetchLog, lastFetched, waitVars, retryVars, productVars>>

\* Variant: the wait is a plain sleep that does not look at the context.
PollSelectTimer_sleep ==
    /\ callee \in PollCallers
    /\ pollPc = "select"
    /\ pollPc' = "fetch"
    /\ UNCHANGED <<callee, ctxVars, diags, fetchCount, writeTimestamp, pollI, last,
                   hasResult, lastRejectReason, pollRet, fetchLog, lastFetched,
                   waitVars, retryVars, productVars>>

\* select: case <-time.After(pollInterval):
PollSelectTimer ==
    /\ callee \in PollCallers
    /\ pollPc = "select"
    /\ ~ctxDone
    /\ pollPc' = "fetch"
    /\ UNCHANGED <<callee, ctxVars, diags, fetchCount, writeTimestamp, pollI, last,
                   hasResult, lastRejectReason, pollRet, fetchLog, lastFetched,
                   waitVars, retryVars, productVars>>

\* The caller's context is cancelled, or its deadline passes, while
\* pollForConsistency runs.
PollCancel ==
    /\ callee \in PollCallers
    /\ pollPc \in {"fetch", "select"}
    /\ \E e \in CtxErrs : CtxCancel(e)
    /\ UNCHANGED <<callee, diags, fetchCount, pollVars, waitVars, retryVars, productVars>>

PollNext ==
    \/ \E o \in FetchOutcomes : PollFetch(o)
    \/ PollSelectDone
    \/ PollSelectTimer
    \/ PollCancel

SpecPoll == PollInit /\ [][PollNext]_vars

(***************************************************************************)
(* OrganizationResource.waitForReadConsistency                             *)
(* (resource_organization.go:435-473)                                      *)
(***************************************************************************)
WaitInit ==
    /\ callee = "waitForReadConsistency"
    /\ CtxInit
    /\ diags = <<>>
    /\ fetchCount = 0
    /\ planned \in PlannedModels
    /\ waitI = 0
    /\ waitPc = "fetch"
    /\ lastOrg = NilOrg
    /\ waitRet = [org |-> NilOrg, err |-> NoErr]
    /\ PollIdle
    /\ RetryIdle
    /\ ProductIdle

WaitReturn(org, e) ==
    /\ waitPc' = "done"
    /\ waitRet' = [org |-> org, err |-> e]
    /\ UNCHANGED <<waitI, diags>>

\* The loop body after result, err := Organizations.Get(ctx, orgID), and, when
\* the loop ends, the code after it (resource_organization.go:448-472).
WaitLoopBody(o) ==
    IF o.err # NoErr
    THEN /\ WaitReturn(NilOrg, o.err)
         /\ UNCHANGED lastOrg
    ELSE /\ lastOrg' = o.org
         /\ IF isConsistent(o.org, planned)
            THEN WaitReturn(o.org, NoErr)
            ELSE /\ waitI' = waitI + 1
                 /\ IF waitI + 1 < pollMaxAttempts
                    THEN /\ waitPc' = "select"
                         /\ UNCHANGED <<waitRet, diags>>
                    ELSE /\ waitPc' = "done"
                         /\ diags' = Append(diags, ReadBackWarning)
                         /\ waitRet' = [org |-> o.org, err |-> NoErr]

\* pollForVisibility with T = components.Organization: the loop body after
\* result, err := fetch(), and the code after the loop
\* (unnamed/part_011:66-88).  accept is nil (planned = NilPlanned) or the
\* check of the response against planned.  fetchLog records the class of
\* the outcome.
VisLoopBody(o) ==
    LET rejected == o.err = NoErr /\ planned # NilPlanned /\ ~isConsistent(o.org, planned)
        reason   == IF rejected THEN "did not match planned values" ELSE lastRejectReason
    IN  /\ UNCHANGED <<lastOrg, diags>>
        /\ fetchLog' = Append(fetchLog, IF o.err = ErrNotFound THEN "notfound"
                                        ELSE IF o.err # NoErr THEN "error"
                                        ELSE IF rejected THEN "rejected"
                                        ELSE "accepted")
        /\ lastRejectReason' = reason
        /\ IF isNotFound(o.err) \/ rejected
           THEN /\ waitI' = waitI + 1
                /\ IF waitI + 1 < pollMaxAttempts
                   THEN waitPc' = "select" /\ UNCHANGED waitRet
                   ELSE /\ waitPc' = "done"
                        /\ waitRet' = [org |-> NilOrg,
                                       err |-> IF reason # ""
                                               THEN "not visible after polling: did not match"
                                               ELSE "not visible after polling"]
           ELSE /\ waitPc' = "done"
                /\ waitRet' = [org |-> IF o.err # NoErr THEN NilOrg ELSE o.org,
                               err |-> o.err]
                /\ UNCHANGED waitI

WaitFetch(o) ==
    /\ callee \in WaitCallers
    /\ waitPc = "fetch"
    /\ fetchCount' = fetchCount + 1
    /\ IF callee = "pollForVisibility"
       THEN VisLoopBody(o)
       ELSE WaitLoopBody(o) /\ UNCHANGED <<lastRejectReason, fetchLog>>
    /\ UNCHANGED <<callee, ctxVars, planned, writeTimestamp, pollI, pollPc, last, hasResult,
                   pollRet, lastFetched, retryVars, productVars>>

\* select: case <-ctx.Done(): return nil, ctx.Err()
WaitSelectDone ==
    /\ callee \in WaitCallers
    /\ waitPc = "select"
    /\ ctxDone
    /\ WaitReturn(NilOrg, ctxErr)
    /\ UNCHANGED <<callee, ctxVars, fetchCount, planned, lastOrg, pollVars, retryVars, productVars>>

\* select: case <-time.After(pollInterval):
WaitSelectTimer ==
    /\ callee \in WaitCallers
    /\ waitPc = "select"
    /\ ~ctxDone
    /\ waitPc' = "fetch"
    /\ UNCHANGED <<callee, ctxVars, diags, fetchCount, planned, waitI, lastOrg,
                   waitRet, pollVars, retryVars, productVars>>

WaitCancel ==
    /\ callee \in WaitCallers
    /\ waitPc \in {"fetch", "select"}
    /\ \E e \in CtxErrs : CtxCancel(e)
    /\ UNCHANGED <<callee, diags, fetchCount, pollVars, waitVars, retryVars, productVars>>

WaitNext ==
    \/ \E o \in GetOutcomes : WaitFetch(o)
    \/ WaitSelectDone
    \/ WaitSelectTimer
    \/ WaitCancel

\* Entry of pollForVisibility: accept is nil, or a check against planned
\* values.
VisInit ==
    /\ callee = "pollForVisibility"
    /\ CtxInit
    /\ diags = <<>>
    /\ fetchCount = 0
    /\ planned \in {NilPlanned} \cup
                   {p \in PlannedModels : /\ p.featureSettings = Nil
                                          /\ p.subscriptionSettings = Nil
                                          /\ p.notificationSettings = Nil
                                          /\ p.customerEmailSettings = Nil}
    /\ waitI = 0
    /\ waitPc = "fetch"
    /\ lastOrg = NilOrg
    /\ waitRet = [org |-> NilOrg, err |-> NoErr]
    /\ PollIdle
    /\ RetryIdle
    /\ ProductIdle

SpecVisibility == VisInit /\ [][WaitNext]_vars

\* Either poller, as the caller chose.
PollersInit == PollInit \/ WaitInit
PollersNext == PollNext \/ WaitNext
SpecPollers == PollersInit /\ [][PollersNext]_vars

(***************************************************************************)
(* doWithRetry.  The source holds two revisions of the function:           *)
(*   "doWithRetry"          resource_organization_sdk.go:299-339           *)
(*   "doWithRetry.part_010" unnamed/part_010:348-401                       *)
(* They differ in the treatment of a (nil, nil) answer of fn and in the    *)
(* text of the error that reports a failed status.                         *)
(***************************************************************************)
RetryCallees == {"doWithRetry", "doWithRetry.part_010"}

\* Status codes an HTTP response can carry (a sample of 100..599).
StatusCodes == {200, 204, 299, 300, 304, 400, 401, 403, 404, 422, 429, 499,
                500, 503, 599}

\* Errors doWithRetry returns.
RetNil             == [msg |-> "nil", status |-> 0]
ErrFn              == [msg |-> "error returned by fn", status |-> 0]
ErrMaxRetries      == [msg |-> "max retries exceeded", status |-> 0]
ErrCtx(e)          == [msg |-> e, status |-> 0]
\* fmt.Errorf("HTTP %d: %s", ...) and, in part_010,
\* fmt.Errorf("supplemental HTTP request failed with status %d", ...)
ErrStatus(c, s)    ==
    IF c = "doWithRetry.part_010"
    THEN [msg |-> "supplemental HTTP request failed with status %d", status |-> s]
    ELSE [msg |-> "HTTP %d: %s", status |-> s]

RECURSIVE Pow(_, _)
Pow(b, n) == IF n = 0 THEN 1 ELSE b * Pow(b, n - 1)

\* Variant: the delay doubles.
BackoffFor_doubling(a) == initialBackoff * Pow(2, a)

\* time.Duration(float64(initialBackoff) * math.Pow(1.5, float64(attempt))):
\* the product, truncated to a whole duration.
BackoffFor(a) == (initialBackoff * Pow(3, a)) \div Pow(2, a)

\* resp.StatusCode >= 200 && resp.StatusCode < 300
IsSuccess(s) == s >= 200 /\ s < 300

\* Variant: every client or server error status is retried.
IsRetryable_all4xx(s) == s >= 400

\* resp.StatusCode == 429 || resp.StatusCode >= 500
IsRetryable(s) == s = 429 \/ s >= 500

\* Variant: the last attempt is followed by a wait too.
MayRetry_offByOne(a) == a < maxAttempts

\* The inner condition attempt < maxAttempts-1
MayRetry(a) == a < maxAttempts - 1

\* The loop condition attempt < maxAttempts
RetryLoopCond(a) == a < maxAttempts

\* The closure a caller hands to doWithRetry, for an HTTP exchange that ended
\* with status s (0: no response, request construction or transport failed):
\* what it returns, whether a response was obtained, and how often the closure
\* closed its body.  patchOrgSupplemental returns what the client returned;
\* getOrgSupplemental decodes a 2xx response, closing the body by a defer
\* and returning the response in resource_organization_sdk.go, closing it
\* after ReadAll and returning (nil, nil) in part_010.
\*   "resp"  a response with a status code, no error
\*   "err"   no response and an error (request construction, transport, decode)
\*   "nil"   (nil, nil): getOrgSupplemental of part_010 consumed a 2xx response
supplementalFn(c, who, s, decoded) ==
    IF s = 0 THEN [kind |-> "err", status |-> 0, obtained |-> FALSE, closed |-> 0]
    ELSE IF who = "getOrgSupplemental" /\ IsSuccess(s)
    THEN IF ~decoded THEN [kind |-> "err", status |-> 0, obtained |-> TRUE, closed |-> 1]
         ELSE IF c = "doWithRetry.part_010"
         THEN [kind |-> "nil", status |-> 0, obtained |-> TRUE, closed |-> 1]
         ELSE [kind |-> "resp", status |-> s, obtained |-> TRUE, closed |-> 1]
    ELSE [kind |-> "resp", status |-> s, obtained |-> TRUE, closed |-> 0]

\* What one invocation of fn can return: (*http.Response, error).
FnOutcomes(c) ==
    {supplementalFn(c, who, s, decoded) :
         who \in {"getOrgSupplemental", "patchOrgSupplemental"},
         s \in StatusCodes \cup {0},
         decoded \in BOOLEAN}

RetryInit ==
    /\ callee \in RetryCallees
    /\ CtxInit
    /\ diags = <<>>
    /\ fetchCount = 0
    /\ attempt = 0
    /\ retryPc = "call"
    /\ backoff = 0
    /\ retryRet = RetNil
    /\ calls = 0
    /\ statusLog = <<>>
    /\ waits = <<>>
    /\ elapsed = 0
    /\ closes = <<>>
    /\ PollIdle
    /\ WaitIdle
    /\ ProductIdle

RetryReturn(e) ==
    /\ retryPc' = "done"
    /\ retryRet' = e
    /\ UNCHANGED <<attempt, backoff, waits>>

\* The loop body after resp, err := fn().
RetryLoopBody(o) ==
    IF o.kind = "err" THEN RetryReturn(ErrFn) /\ UNCHANGED statusLog
    ELSE IF o.kind = "nil" THEN RetryReturn(RetNil) /\ UNCHANGED statusLog
    ELSE /\ statusLog' = Append(statusLog, o.status)
         /\ IF IsSuccess(o.status) THEN RetryReturn(RetNil)
            ELSE IF IsRetryable(o.status) /\ MayRetry(attempt)
            THEN /\ backoff' = BackoffFor(attempt)
                 /\ waits' = Append(waits, BackoffFor(attempt))
                 /\ retryPc' = "select"
                 /\ UNCHANGED <<attempt, retryRet>>
            ELSE RetryReturn(ErrStatus(callee, o.status))

\* resp, err := fn() and the loop body up to the select or a return.
RetryCall(o) ==
    /\ callee \in RetryCallees
    /\ retryPc = "call"
    /\ calls' = calls + 1
    /\ RetryLoopBody(o)
    /\ closes' = IF o.obtained
                 THEN Append(closes, o.closed + IF o.kind = "resp" THEN 1 ELSE 0)
                 ELSE closes
    /\ UNCHANGED <<callee, ctxVars, diags, fetchCount, elapsed, pollVars, waitVars, productVars>>

\* select: case <-ctx.Done(): return ctx.Err()
RetrySelectDone ==
    /\ callee \in RetryCallees
    /\ retryPc = "select"
    /\ ctxDone
    /\ RetryReturn(ErrCtx(ctxErr))
    /\ UNCHANGED <<callee, ctxVars, diags, fetchCount, calls, statusLog, elapsed, closes,
                   pollVars, waitVars, productVars>>

\* Variant: the backoff is a plain sleep that does not look at the context.
RetrySelectTimer_sleep(slack) ==
    /\ callee \in RetryCallees
    /\ retryPc = "select"
    /\ elapsed' = elapsed + backoff + slack
    /\ attempt' = attempt + 1
    /\ IF attempt + 1 < maxAttempts
       THEN retryPc' = "call" /\ UNCHANGED retryRet
       ELSE retryPc' = "done" /\ retryRet' = ErrMaxRetries
    /\ UNCHANGED <<callee, ctxVars, diags, fetchCount, backoff, calls, statusLog,
                   waits, closes, pollVars, waitVars, productVars>>

\* select: case <-time.After(backoff): continue
\* The timer fires no earlier than backoff after the select was entered.
\* continue: attempt++ and the loop condition; the statement after the loop
\* returns "max retries exceeded".
RetrySelectTimer(slack) ==
    /\ callee \in RetryCallees
    /\ retryPc = "select"
    /\ ~ctxDone
    /\ elapsed' = elapsed + backoff + slack
    /\ attempt' = attempt + 1
    /\ IF RetryLoopCond(attempt + 1)
       THEN retryPc' = "call" /\ UNCHANGED retryRet
       ELSE retryPc' = "done" /\ retryRet' = ErrMaxRetries
    /\ UNCHANGED <<callee, ctxVars, diags, fetchCount, backoff, calls, statusLog,
                   waits, closes, pollVars, waitVars, productVars>>

RetryCancel ==
    /\ callee \in RetryCallees
    /\ retryPc \in {"call", "select"}
    /\ \E e \in CtxErrs : CtxCancel(e)
    /\ UNCHANGED <<callee, diags, fetchCount, pollVars, waitVars, retryVars, productVars>>

RetryNext ==
    \/ \E o \in FnOutcomes(callee) : RetryCall(o)
    \/ RetrySelectDone
    \/ \E slack \in 0 .. MaxSlack : RetrySelectTimer(slack)
    \/ RetryCancel

SpecRetry == RetryInit /\ [][RetryNext]_vars

(***************************************************************************)
(* The helpers of the product and organization resources are functions of  *)
(* their arguments: they run without a context and without remote calls,   *)
(* and everything outside their own variables is idle.  A loop of a helper *)
(* is a recursive operator over what the loop carries.                     *)
(***************************************************************************)
HelperInit ==
    /\ CtxInit
    /\ diags = <<>>
    /\ fetchCount = 0
    /\ PollIdle
    /\ WaitIdle
    /\ RetryIdle
    /\ ClaimIdle

MaxPrices == 2                    \* the longest price list

(***************************************************************************)
(* pricesToUpdateSDK (resource_product_sdk.go:371-417) with                *)
(* extractExistingPrices (299-323) and sdkProductPriceToModel (489-520).   *)
(*                                                                         *)
(* A components.ProductPrice is a record of its variant ("kind") and the   *)
(* fields of the variant; a *int64 is written as the types.Int64 that      *)
(* optionalInt64Value makes of it.  "legacy" stands for a                  *)
(* components.Prices whose ProductPrice is nil.                            *)
(***************************************************************************)
\* sdkProductPriceToModel converts one SDK price union variant into a flat
\* PriceModel; Nil for a variant it does not know.
sdkProductPriceToModel(pp) ==
    IF pp.kind = "fixed"
    THEN FixedPrice(StringValue(pp.priceCurrency), Int64Value(pp.priceAmount))
    ELSE IF pp.kind = "free" THEN FreePrice(StringNull)
    ELSE IF pp.kind = "custom"
    THEN CustomPrice(StringValue(pp.priceCurrency), pp.minimumAmount, pp.maximumAmount,
                     pp.presetAmount)
    ELSE IF pp.kind = "metered_unit"
    THEN MeteredPrice(StringValue(pp.priceCurrency), pp.meterID,
                      normalizeDecimalString(pp.unitAmount), pp.capAmount)
    ELSE Nil

\* Variant: the converted prices are collected in reverse order.
RECURSIVE extractExistingPrices_reversed(_)
extractExistingPrices_reversed(apiPrices) ==
    IF apiPrices = <<>> THEN <<>>
    ELSE LET p    == Head(apiPrices)
             rest == extractExistingPrices_reversed(Tail(apiPrices))
         IN  IF p.price.kind = "legacy" THEN rest
             ELSE IF sdkProductPriceToModel(p.price) = Nil THEN rest
             ELSE rest \o <<[id |-> p.id, data |-> sdkProductPriceToModel(p.price),
                             used |-> FALSE]>>

\* extractExistingPrices converts the API price response into matchable
\* structs, skipping the prices it cannot convert.
RECURSIVE extractExistingPrices(_)
extractExistingPrices(apiPrices) ==
    IF apiPrices = <<>> THEN <<>>
    ELSE LET p    == Head(apiPrices)
             rest == extractExistingPrices(Tail(apiPrices))
         IN  IF p.price.kind = "legacy" THEN rest
             ELSE IF sdkProductPriceToModel(p.price) = Nil THEN rest
             ELSE <<[id |-> p.id, data |-> sdkProductPriceToModel(p.price),
                     used |-> FALSE]>> \o rest

\* The entries of the update list.
ExistingProductPrice(id) == [kind |-> "existing", id |-> id]
NewPrice(p)              == [kind |-> "new", price |-> p]

\* Variant: the inner loop takes the last existing price that is not used and
\* matches p.
FirstMatch_last(p, ex) ==
    LET c == {j \in 1 .. Len(ex) : ~ex[j].used /\ pricesMatch(p, ex[j].data)}
    IN  IF c = {} THEN 0 ELSE CHOOSE j \in c : \A k \in c : k <= j

\* The inner loop "for _, ep := range existing": the index of the first
\* existing price that is not used and matches p, 0 when there is none.
FirstMatch(p, ex) ==
    LET c == {j \in 1 .. Len(ex) : ~ex[j].used /\ pricesMatch(p, ex[j].data)}
    IN  IF c = {} THEN 0 ELSE CHOOSE j \in c : \A k \in c : j <= k

\* Variant: the matched price is not marked.
MarkUsed_noop(ex, j) == ex

\* ep.used = true
MarkUsed(ex, j) == [ex EXCEPT ![j].used = TRUE]

\* The loop "for i, p := range planned" from the planned prices that are
\* left, the existing prices and the entries made so far: [result, err].
RECURSIVE pricesToUpdateSDKLoop(_, _, _)
pricesToUpdateSDKLoop(rest, ex, result) ==
    IF rest = <<>> THEN [result |-> result, err |-> FALSE]
    ELSE LET p == Head(rest)
             j == FirstMatch(p, ex)
         IN  IF j # 0
             THEN pricesToUpdateSDKLoop(Tail(rest), MarkUsed(ex, j),
                                        Append(result, ExistingProductPrice(ex[j].id)))
             ELSE IF ValueString(p.amountType) \in {"fixed", "free", "custom", "metered_unit"}
             THEN pricesToUpdateSDKLoop(Tail(rest), ex, Append(result, NewPrice(p)))
             ELSE [result |-> <<>>, err |-> TRUE]

\* pricesToUpdateSDK builds the update prices list, preserving the IDs of
\* the existing prices that match.
pricesToUpdateSDK(plannedPrices, currentPrices) ==
    pricesToUpdateSDKLoop(plannedPrices, extractExistingPrices(currentPrices), <<>>)

(***************************************************************************)
(* preserveUnitAmountFormatting (resource_product_sdk.go:547-564)          *)
(***************************************************************************)
\* Variant: the first prior price that is not used and has a unit amount,
\* whether it matches or not.
PickPrior_unmatched(i, pr, priors, us) ==
    LET c == {j \in 1 .. Len(priors) : ~us[j] /\ ~priors[j].unitAmount.isNull}
    IN  IF c = {} THEN 0 ELSE CHOOSE j \in c : \A k \in c : j <= k

\* Variant: the prior price at the same index, when it matches.
PickPrior_byIndex(i, pr, priors, us) ==
    IF /\ i \in 1 .. Len(priors)
       /\ ~us[i]
       /\ ~priors[i].unitAmount.isNull
       /\ pricesMatch(pr, priors[i])
    THEN i ELSE 0

\* The inner loop "for j := range priorPrices" for the price pr at index i:
\* the index of the first prior price that is not used, has a unit amount
\* and matches pr, 0 when there is none.
PickPrior(i, pr, priors, us) ==
    LET c == {j \in 1 .. Len(priors) :
                 ~us[j] /\ ~priors[j].unitAmount.isNull /\ pricesMatch(pr, priors[j])}
    IN  IF c = {} THEN 0 ELSE CHOOSE j \in c : \A k \in c : j <= k

\* The loop "for i := range prices" from index i on: the prices it leaves.
RECURSIVE preserveLoop(_, _, _, _)
preserveLoop(i, prices, priorPrices, used) ==
    IF i > Len(prices) THEN prices
    ELSE LET j == IF prices[i].unitAmount.isNull THEN 0
                  ELSE PickPrior(i, prices[i], priorPrices, used)
         IN  IF j = 0 THEN preserveLoop(i + 1, prices, priorPrices, used)
             ELSE preserveLoop(i + 1,
                               [prices EXCEPT ![i].unitAmount = priorPrices[j].unitAmount],
                               priorPrices,
                               [used EXCEPT ![j] = TRUE])

\* preserveUnitAmountFormatting restores the prior formatting of unit_amount
\* when the numeric value hasn't changed: the prices as the call leaves them.
preserveUnitAmountFormatting(prices, priorPrices) ==
    preserveLoop(1, prices, priorPrices, [j \in 1 .. Len(priorPrices) |-> FALSE])

(***************************************************************************)
(* preserveURLFormatting (resource_organization.go:506-513)                *)
(***************************************************************************)
\* strings.TrimRight(s, "/")
RECURSIVE TrimRight(_)
TrimRight(s) ==
    IF s # <<>> /\ s[Len(s)] = "/" THEN TrimRight(SubSeq(s, 1, Len(s) - 1)) ELSE s

\* Variant: the prior value is kept when the two are equal or one of them is
\* the other with one "/" appended.
preserveURLFormatting_oneSlash(current, prior) ==
    IF current.isNull \/ prior.isNull THEN current
    ELSE IF \/ ValueString(current) = ValueString(prior)
            \/ ValueString(current) = Append(ValueString(prior), "/")
            \/ ValueString(prior) = Append(ValueString(current), "/") THEN prior
    ELSE current

\* preserveURLFormatting: the value of *current after the call.
preserveURLFormatting(current, prior) ==
    IF current.isNull \/ prior.isNull THEN current
    ELSE IF TrimRight(ValueString(current)) = TrimRight(ValueString(prior)) THEN prior
    ELSE current

(***************************************************************************)
(* The request builders and response mappers of the product resource       *)
(* (resource_product_sdk.go:19-194), restricted to the attributes a user   *)
(* may leave unset and to id, name and is_archived.  A types.Set is        *)
(* [isNull, v |-> set], a types.Map is [isNull, v |-> set of <<key,        *)
(* value>>], a types.List is [isNull, v |-> sequence]; an unknown value is *)
(* StringUnknown.  In a request, a nil pointer, slice or map is the null   *)
(* of the attribute's type.                                                *)
(***************************************************************************)
\* !x.IsNull() && !x.IsUnknown()
IsSet(x) == ~x.isNull /\ x # StringUnknown

\* buildProductCreateRequest: the fields the recurring and the one-time
\* request share.
buildProductCreateRequest(data) ==
    [name        |-> ValueString(data.name),
     description |-> IF IsSet(data.description) THEN data.description ELSE StringNull,
     medias      |-> IF IsSet(data.medias) THEN data.medias ELSE SeqStringNull,
     metadata    |-> IF IsSet(data.metadata) THEN data.metadata
                     ELSE [isNull |-> TRUE, v |-> {}]]

\* buildProductUpdateRequest
buildProductUpdateRequest(data) ==
    [name        |-> ValueString(data.name),
     description |-> IF IsSet(data.description) THEN data.description ELSE StringNull,
     metadata    |-> IF IsSet(data.metadata) THEN data.metadata
                     ELSE [isNull |-> TRUE, v |-> {}],
     medias      |-> IF IsSet(data.medias) THEN data.medias ELSE SeqStringNull,
     isArchived  |-> ValueBool(data.isArchived)]

\* Variant: the benefits of the response are mapped whether the model holds
\* benefit_ids or not.
mapProductResponseToState_allBenefits(product, data) ==
    [data EXCEPT
        !.id          = StringValue(product.id),
        !.name        = StringValue(product.name),
        !.isArchived  = BoolValue(product.isArchived),
        !.description = product.description,
        !.metadata    = [isNull |-> FALSE, v |-> product.metadata],
        !.benefitIDs  = [isNull |-> FALSE, v |-> product.benefits \ {""}],
        !.medias      = IF ~data.medias.isNull
                        THEN [isNull |-> FALSE, v |-> product.medias]
                        ELSE @]

\* mapProductResponseToState converts the full product API response into the
\* TF model: the model after the call.  product.description is the
\* types.String optionalStringValue makes of the *string.
mapProductResponseToState(product, data) ==
    [data EXCEPT
        !.id          = StringValue(product.id),
        !.name        = StringValue(product.name),
        !.isArchived  = BoolValue(product.isArchived),
        !.description = product.description,
        !.metadata    = [isNull |-> FALSE, v |-> product.metadata],
        !.benefitIDs  = IF ~data.benefitIDs.isNull
                        THEN [isNull |-> FALSE, v |-> product.benefits \ {""}]
                        ELSE @,
        !.medias      = IF ~data.medias.isNull
                        THEN [isNull |-> FALSE, v |-> product.medias]
                        ELSE @]

(***************************************************************************)
(* The request builders and the response mapper of the organization        *)
(* resource (resource_organization_sdk.go:41-235).  A settings block is    *)
(* restricted to the field isConsistent reads; the model and the response  *)
(* may lack the profile fields other than name.                            *)
(***************************************************************************)
\* buildOrganizationUpdate
buildOrganizationUpdate(data) ==
    [f \in DOMAIN data \ {"id", "subscriptionSettings"} |->
        IF f = "featureSettings"
        THEN IF data[f] # Nil
             THEN [issueFundingEnabled |-> ValueBool(data[f].issueFundingEnabled)]
             ELSE Nil
        ELSE IF f = "notificationSettings"
        THEN IF data[f] # Nil THEN [newOrder |-> ValueBool(data[f].newOrder)] ELSE Nil
        ELSE IF f = "customerEmailSettings"
        THEN IF data[f] # Nil
             THEN [orderConfirmation |-> ValueBool(data[f].orderConfirmation)]
             ELSE Nil
        ELSE IF IsSet(data[f]) THEN data[f]
        ELSE [isNull |-> TRUE, v |-> IF f \in {"website", "socials"} THEN <<>> ELSE ""]]

\* buildSupplementalPayload builds the raw HTTP payload for
\* subscription_settings.
buildSupplementalPayload(data) ==
    [subscriptionSettings |->
        IF data.subscriptionSettings # Nil
        THEN [prorationBehavior |-> ValueString(data.subscriptionSettings.prorationBehavior)]
        ELSE Nil]

\* Variant: the name is taken from the response whether the model holds one
\* or not.
mapOrganizationResponseToState_always(org, data) ==
    [f \in DOMAIN data |->
        IF f = "name" THEN StringValue(org.name) ELSE data[f]]

\* mapOrganizationResponseToState: the model after the call.  The optional
\* profile fields of org are the types.String optionalStringValue makes of
\* them.
mapOrganizationResponseToState(org, data) ==
    [f \in DOMAIN data |->
        IF f = "id" THEN StringValue(org.id)
        ELSE IF f = "name"
        THEN IF ~data[f].isNull THEN StringValue(org.name) ELSE data[f]
        ELSE IF f \in {"avatarURL", "email", "website"}
        THEN IF ~data[f].isNull THEN org[f] ELSE data[f]
        ELSE IF f = "socials"
        THEN IF ~data[f].isNull THEN [isNull |-> FALSE, v |-> org.socials] ELSE data[f]
        ELSE IF f = "featureSettings"
        THEN IF data[f] # Nil /\ org.featureSettings # Nil
             THEN [issueFundingEnabled |->
                      BoolValue(derefBool(org.featureSettings.issueFundingEnabled))]
             ELSE data[f]
        ELSE IF f = "subscriptionSettings"
        THEN IF data[f] # Nil
             THEN [prorationBehavior |-> StringValue(org.prorationBehavior)]
             ELSE data[f]
        ELSE IF f = "notificationSettings"
        THEN IF data[f] # Nil THEN [newOrder |-> BoolValue(org.newOrder)] ELSE data[f]
        ELSE IF f = "customerEmailSettings"
        THEN IF data[f] # Nil
             THEN [orderConfirmation |-> BoolValue(org.orderConfirmation)]
             ELSE data[f]
        ELSE data[f]]

(***************************************************************************)
(* The arguments the helpers are applied to.                               *)
(***************************************************************************)
DecimalStrings ==
    {Chars[t] : t \in {"", "abc", "0.5", "0.50", "0.500000000000", "0.6", "1", "1.0",
                       "1.00", "2", "100", "9007199254740992", "9007199254740993",
                       "9007199254740994", "9007199254740995"}}

\* Price models whose fields outside their amount type are null, as
\* ValidateConfig (resource_product.go:201-327) and sdkProductPriceToModel
\* leave them.  The currency of a price in a plan is not configured (null),
\* not yet known, or set.
PriceModels ==
    {FixedPrice(c, Int64Value(a)) :
         c \in {StringNull, StringUnknown, StringValue("usd"), StringValue("eur")},
         a \in {500, 1000}}
    \cup {FreePrice(c) : c \in {StringNull, StringValue("usd")}}
    \cup {CustomPrice(c, mn, mx, pr) :
             c \in {StringNull, StringValue("usd"), StringValue("eur")},
             mn \in {Int64Null, Int64Value(100)},
             mx \in {Int64Null, Int64Value(1000)},
             pr \in {Int64Null, Int64Value(500)}}
    \cup {MeteredPrice(c, m, u, cap) :
             c \in {StringNull, StringValue("usd"), StringValue("eur")},
             m \in {"meter_1", "meter_2"},
             u \in {Chars["0.5"], Chars["0.50"], Chars["0.6"]},
             cap \in {Int64Null, Int64Value(5000)}}

\* A metered price of the API without a cap.
ApiMetered(meter, unit) ==
    [kind |-> "metered_unit", priceCurrency |-> "usd", meterID |-> meter,
     unitAmount |-> unit, capAmount |-> Int64Null]

\* The prices of the API in the model, and the prices of a plan.
ApiPriceSamples ==
    {[kind |-> "legacy"],
     [kind |-> "fixed", priceCurrency |-> "usd", priceAmount |-> 500],
     [kind |-> "fixed", priceCurrency |-> "usd", priceAmount |-> 1000],
     [kind |-> "free"],
     [kind |-> "custom", priceCurrency |-> "usd", minimumAmount |-> Int64Value(100),
      maximumAmount |-> Int64Value(1000), presetAmount |-> Int64Value(500)],
     ApiMetered("meter_1", Chars["0.500000000000"])}

PlannedPriceSamples ==
    {FixedPrice(StringNull, Int64Value(500)),
     FixedPrice(StringValue("usd"), Int64Value(1000)),
     FixedPrice(StringValue("eur"), Int64Value(500)),
     FreePrice(StringNull),
     CustomPrice(StringNull, Int64Value(100), Int64Value(1000), Int64Value(500)),
     MeteredPrice(StringNull, "meter_1", Chars["0.50"], Int64Null)}

\* Prices as mapProductResponseToState leaves them (from the API, the unit
\* amount normalized) and prices of the plan or the prior state.
CurrentPriceSamples ==
    {sdkProductPriceToModel(ApiMetered("meter_1", Chars["0.500000000000"])),
     sdkProductPriceToModel(ApiMetered("meter_1", Chars["0.6"])),
     sdkProductPriceToModel(ApiMetered("meter_2", Chars["1.00"])),
     sdkProductPriceToModel(ApiMetered("meter_1", Chars["9007199254740992"])),
     sdkProductPriceToModel([kind |-> "fixed", priceCurrency |-> "usd",
                             priceAmount |-> 500])}

PriorPriceSamples ==
    {MeteredPrice(StringNull, "meter_1", Chars["0.50"], Int64Null),
     MeteredPrice(StringValue("usd"), "meter_1", Chars["0.5"], Int64Null),
     MeteredPrice(StringNull, "meter_2", Chars["1.00"], Int64Null),
     MeteredPrice(StringNull, "meter_1", Chars["9007199254740993"], Int64Null),
     FixedPrice(StringValue("usd"), Int64Value(500))}

Websites ==
    {SeqStringNull} \cup
    {StringValue(Chars[t]) :
         t \in {"", "/", "x://a", "x://a/", "x://a//", "x://b", "x://b/", "x://a/b"}}

\* ProductResourceModel, restricted as above: what a plan or a prior state
\* can hold.
ProductModels ==
    [id          : {StringValue("product_1")},
     name        : {StringValue("name_1")},
     description : {StringNull, StringUnknown, StringValue("text_1")},
     metadata    : {[isNull |-> TRUE, v |-> {}], StringUnknown, [isNull |-> FALSE, v |-> {}],
                    [isNull |-> FALSE, v |-> {<<"key", "value_1">>}]},
     medias      : {SeqStringNull, StringUnknown, StringValue(<<>>),
                    StringValue(<<"media_1">>)},
     benefitIDs  : {[isNull |-> TRUE, v |-> {}], [isNull |-> FALSE, v |-> {}],
                    [isNull |-> FALSE, v |-> {"benefit_1"}]},
     isArchived  : {BoolValue(FALSE), BoolValue(TRUE)}]

\* components.Product, restricted as above; benefits holds benefitID(b) of
\* every benefit b.
Products ==
    [id          : {"product_1"},
     name        : {"name_2"},
     description : {StringNull, StringValue("text_2")},
     metadata    : {{}, {<<"key", "value_2">>}},
     medias      : {<<>>, <<"media_2">>},
     benefits    : {{}, {"benefit_2"}},
     isArchived  : BOOLEAN]

\* The lists of at most MaxPrices elements of S.
ListsOf(S) == UNION {[1 .. n -> S] : n \in 0 .. MaxPrices}

\* The price list of a product as the API returns it: every price has its
\* own ID.
WithIDs(l) ==
    [k \in 1 .. Len(l) |->
        [id |-> <<"price_A", "price_B", "price_C", "price_D">>[k], price |-> l[k]]]

Helpers == {"numericStringsEqual", "pricesMatch", "pricesToUpdateSDK",
            "preserveUnitAmountFormatting", "preserveURLFormatting", "latestTimestamp",
            "buildProductCreateRequest", "buildProductUpdateRequest",
            "mapProductResponseToState", "buildOrganizationUpdate",
            "mapOrganizationResponseToState"}

\* OrganizationResourceModel with the profile fields, and the organizations
\* of the API it is mapped from.
OrganizationModels ==
    [id                    : {StringValue("org_1")},
     name                  : {StringNull, StringUnknown, StringValue("acme")},
     avatarURL             : {StringNull, StringValue("avatar_1")},
     email                 : {StringNull, StringValue("email_1")},
     website               : {SeqStringNull, StringValue(Chars["x://a/"])},
     socials               : {SeqStringNull, StringValue(<<"social_1">>)},
     featureSettings       : {Nil, [issueFundingEnabled |-> BoolValue(TRUE)]},
     subscriptionSettings  : {Nil, [prorationBehavior |-> StringValue("invoice")]},
     notificationSettings  : {Nil, [newOrder |-> BoolValue(TRUE)]},
     customerEmailSettings : {Nil, [orderConfirmation |-> BoolValue(TRUE)]}]

OrganizationResponses ==
    [id                : {"org_1"},
     name              : {"globex"},
     avatarURL         : {StringNull, StringValue("avatar_2")},
     email             : {StringValue("email_2")},
     website           : {SeqStringNull, StringValue(Chars["x://a"]),
                          StringValue(Chars["x://b"])},
     socials           : {<<"social_2">>},
     featureSettings   : {Nil, [issueFundingEnabled |-> "false"]},
     prorationBehavior : {"prorate"},
     newOrder          : {FALSE},
     orderConfirmation : {FALSE}]

\* The arguments of the helper c.
Inputs(c) ==
    IF c = "numericStringsEqual" THEN [a : DecimalStrings, b : DecimalStrings]
    ELSE IF c = "pricesMatch" THEN [planned : PriceModels, existing : PriceModels]
    ELSE IF c = "pricesToUpdateSDK"
    THEN {[planned |-> p, currentPrices |-> WithIDs(l)] :
             p \in ListsOf(PlannedPriceSamples), l \in ListsOf(ApiPriceSamples)}
    ELSE IF c = "preserveUnitAmountFormatting"
    THEN [prices : ListsOf(CurrentPriceSamples), priorPrices : ListsOf(PriorPriceSamples)]
    ELSE IF c = "preserveURLFormatting" THEN [current : Websites, prior : Websites]
    ELSE IF c = "latestTimestamp" THEN [t : Results]
    ELSE IF c \in {"buildProductCreateRequest", "buildProductUpdateRequest"}
    THEN [data : ProductModels]
    ELSE IF c = "mapProductResponseToState" THEN [product : Products, data : ProductModels]
    ELSE IF c = "buildOrganizationUpdate" THEN [data : OrganizationModels]
    ELSE [org : OrganizationResponses, data : OrganizationModels]

\* What the helper c returns for the arguments a.  pricesMatch is applied in
\* both orders of its arguments; the helpers that write through a pointer
\* return what they leave behind it; buildOrganizationUpdate comes with
\* buildSupplementalPayload, and mapOrganizationResponseToState with the
\* preserveURLFormatting that follows it in Create, Read and Update
\* (resource_organization.go:331-336, 356-361, 413-418).
Apply(c, a) ==
    IF c = "numericStringsEqual" THEN numericStringsEqual(a.a, a.b)
    ELSE IF c = "pricesMatch"
    THEN [fwd |-> pricesMatch(a.planned, a.existing),
          rev |-> pricesMatch(a.existing, a.planned)]
    ELSE IF c = "pricesToUpdateSDK" THEN pricesToUpdateSDK(a.planned, a.currentPrices)
    ELSE IF c = "preserveUnitAmountFormatting"
    THEN preserveUnitAmountFormatting(a.prices, a.priorPrices)
    ELSE IF c = "preserveURLFormatting" THEN preserveURLFormatting(a.current, a.prior)
    ELSE IF c = "latestTimestamp" THEN latestTimestamp(a.t)
    ELSE IF c = "buildProductCreateRequest" THEN buildProductCreateRequest(a.data)
    ELSE IF c = "buildProductUpdateRequest" THEN buildProductUpdateRequest(a.data)
    ELSE IF c = "mapProductResponseToState"
    THEN mapProductResponseToState(a.product, a.data)
    ELSE IF c = "buildOrganizationUpdate"
    THEN [update       |-> buildOrganizationUpdate(a.data),
          supplemental |-> buildSupplementalPayload(a.data)]
    ELSE LET d == mapOrganizationResponseToState(a.org, a.data)
         IN  [d EXCEPT !.website = preserveURLFormatting(d.website, a.data.website)]

HelpersInit ==
    /\ callee \in Helpers
    /\ HelperInit
    /\ fnArgs \in Inputs(callee)
    /\ fnPc = "call"
    /\ fnRet = <<>>
    /\ CreateIdle

HelperCall ==
    /\ callee \in Helpers
    /\ fnPc = "call"
    /\ fnRet' = Apply(callee, fnArgs)
    /\ fnPc' = "done"
    /\ UNCHANGED <<callee, ctxVars, diags, fetchCount, pollVars, waitVars, retryVars,
                   fnArgs, createVars, claimVars>>

SpecHelpers == HelpersInit /\ [][HelperCall]_vars

(***************************************************************************)
(* The handlers of the resources: Create, Read, Update and Delete of a     *)
(* product (resource_product.go:339-558), Create and Update of the         *)
(* organization (resource_organization.go:273-420), Read and Delete of a   *)
(* meter (resource_meter.go:201-308).  The steps are cut at the remote     *)
(* calls (the primary write, the supplemental write, the fetches of the    *)
(* poller) and at the writes of resp.State.  The model of a product is     *)
(* restricted as for the mappers above, without its prices; SpecCreate is  *)
(* Create of a product alone, SpecWrite has every handler.                 *)
(***************************************************************************)
\* What the remote call of the handler c can return.  Products.Create
\* returns a product that is just created and never modified;
\* Products.Update returns the product with its modification time; the
\* handlers of the organization drop the response of Organizations.Update,
\* and Delete that of the archiving update.  Read gets the product of
\* Products.Get, or the meter readWithConsistency returns
\* (resource_meter.go:209-216) with ArchivedAt nil (NoTime) or set.
CreateOutcomes ==
    [product : [id : {"product_1"}, createdAt : Times, modifiedAt : {NoTime}],
     err : {NoErr}]
    \cup [product : {NoProduct}, err : {ErrOther}]

CallOutcomes(c) ==
    IF c = "ProductResource.Create" THEN CreateOutcomes
    ELSE IF c = "ProductResource.Update"
    THEN [product : [id : {"product_1"}, createdAt : {0}, modifiedAt : Times],
          err : {NoErr}]
         \cup [product : {NoProduct}, err : {ErrOther}]
    ELSE IF c \in OrganizationHandlers
    THEN [product : {NoProduct}, err : {NoErr, ErrOther}]
    ELSE IF c = "ProductResource.Read"
    THEN [product : {p \in Products : /\ p.description = StringNull
                                      /\ p.metadata = {}
                                      /\ p.medias = <<>>},
          err : {NoErr}]
         \cup [product : {NoProduct}, err : {ErrNotFound, ErrOther}]
    ELSE IF c = "MeterResource.Read"
    THEN [product : [id : {"meter_1"}, name : {"name_2"}, archivedAt : {NoTime} \cup Times],
          err : {NoErr}]
         \cup [product : {NoProduct}, err : {ErrNotFound, ErrOther}]
    ELSE [product : {NoProduct}, err : {NoErr, ErrNotFound, ErrOther}]

\* resp.Diagnostics.AddError(summary, ...)
AddError(summary) == respErrors' = Append(respErrors, summary)

\* History: a remote call the handler makes itself, and the error it
\* returned.
Remote(call, payload, err) ==
    remoteLog' = Append(remoteLog, [call |-> call, payload |-> payload, err |-> err])

CreateInit ==
    /\ callee = "ProductResource.Create"
    /\ HelperInit
    /\ createPc = "build"
    /\ plan \in {[m EXCEPT !.id = StringUnknown] :
                    m \in {x \in ProductModels :
                               /\ x.description = StringNull
                               /\ x.metadata.isNull /\ x.metadata # StringUnknown
                               /\ x.medias = SeqStringNull}}
    /\ dataID = StringUnknown
    /\ createResult = NoProduct
    /\ stateID = StringNull
    /\ state = Nil
    /\ respErrors = <<>>
    /\ createCalls = 0
    /\ benefitCalls = 0
    /\ remoteLog = <<>>
    /\ FnIdle

\* Entry of a handler.  Update of a product, Create and Update of the
\* organization after req.Plan.Get: an Update starts from the state of the
\* last apply and with the ID in the plan (resource_product.go:454-460,
\* resource_organization.go:273-280, 364-370).  Read and Delete of a product
\* or a meter after req.State.Get (resource_product.go:420-424, 534-538,
\* resource_meter.go:202-206, 284-288).
WriteInit ==
    \/ CreateInit
    \/ /\ callee \in (ProductHandlers \cup OrganizationHandlers)
                         \ {"ProductResource.Create"}
       /\ HelperInit
       /\ createPc = IF callee = "OrganizationResource.Update" THEN "build" ELSE "prefetch"
       /\ IF callee \in ProductHandlers
          THEN plan \in {m \in ProductModels :
                            /\ m.description = StringNull
                            /\ m.metadata.isNull /\ m.metadata # StringUnknown
                            /\ m.medias = SeqStringNull}
          ELSE plan \in {p \in PlannedModels :
                            /\ p.featureSettings = Nil
                            /\ p.notificationSettings = Nil
                            /\ p.customerEmailSettings = Nil
                            /\ p.name \in {StringNull, StringValue("acme")}}
       /\ dataID = IF callee = "ProductResource.Update" THEN StringValue("product_1")
                   ELSE IF callee = "OrganizationResource.Update" THEN StringValue("org_1")
                   ELSE StringUnknown
       /\ createResult = NoProduct
       /\ stateID = IF callee = "OrganizationResource.Create" THEN StringNull ELSE dataID
       /\ state = IF callee = "OrganizationResource.Create" THEN Nil
                  ELSE [data |-> plan, from |-> Nil]
       /\ respErrors = <<>>
       /\ createCalls = 0
       /\ benefitCalls = 0
       /\ remoteLog = <<>>
       /\ FnIdle
    \/ /\ callee \in {"ProductResource.Read", "MeterResource.Read",
                       "ProductResource.Delete", "MeterResource.Delete"}
       /\ HelperInit
       /\ createPc = IF callee \in {"ProductResource.Read", "MeterResource.Read"}
                     THEN "read" ELSE "delete"
       /\ IF callee \in {"ProductResource.Read", "ProductResource.Delete"}
          THEN plan \in {m \in ProductModels :
                            /\ m.description = StringNull
                            /\ m.metadata.isNull /\ m.metadata # StringUnknown
                            /\ m.medias = SeqStringNull}
          ELSE plan = [id |-> StringValue("meter_1"), name |-> StringValue("name_1")]
       /\ dataID = plan.id
       /\ createResult = NoProduct
       /\ stateID = dataID
       /\ state = [data |-> plan, from |-> Nil]
       /\ respErrors = <<>>
       /\ createCalls = 0
       /\ benefitCalls = 0
       /\ remoteLog = <<>>
       /\ FnIdle

createFrame == <<callee, fetchCount, diags, pollVars, waitVars, retryVars, fnVars,
                 claimVars>>

\* !data.BenefitIDs.IsNull() (resource_product.go:375, 493), or
\* data.SubscriptionSettings != nil (resource_organization.go:309, 393).
HasSupplemental ==
    IF callee \in ProductHandlers THEN ~plan.benefitIDs.isNull
    ELSE plan.subscriptionSettings # Nil

\* Variant: the error of the pre-fetch is reported and the handler goes on.
CreatePrefetch_goOn(err) ==
    /\ callee \in {"ProductResource.Update", "OrganizationResource.Create"}
    /\ createPc = "prefetch"
    /\ ctxDone => err # NoErr
    /\ Remote(IF callee = "ProductResource.Update" THEN "Products.Get"
              ELSE "discoverOrganization", <<>>, err)
    /\ IF err # NoErr
       THEN AddError(IF callee = "ProductResource.Update"
                     THEN "Error reading product for update"
                     ELSE "Error discovering organization")
       ELSE UNCHANGED respErrors
    /\ createPc' = "build"
    /\ UNCHANGED <<createFrame, ctxVars, plan, dataID, createResult, stateID, state,
                   createCalls, benefitCalls>>

\* The call before the request is built: the Products.Get of the current
\* prices in Update of a product (resource_product.go:463-473), and
\* discoverOrganization in Create of the organization
\* (resource_organization.go:282-290).
CreatePrefetch(err) ==
    /\ callee \in {"ProductResource.Update", "OrganizationResource.Create"}
    /\ createPc = "prefetch"
    /\ ctxDone => err # NoErr
    /\ Remote(IF callee = "ProductResource.Update" THEN "Products.Get"
              ELSE "discoverOrganization", <<>>, err)
    /\ IF err # NoErr
       THEN /\ AddError(IF callee = "ProductResource.Update"
                        THEN "Error reading product for update"
                        ELSE "Error discovering organization")
            /\ createPc' = "done"
       ELSE createPc' = "build" /\ UNCHANGED respErrors
    /\ UNCHANGED <<createFrame, ctxVars, plan, dataID, createResult, stateID, state,
                   createCalls, benefitCalls>>

\* The request builder (buildProductCreateRequest, buildProductUpdateRequest,
\* buildOrganizationUpdate): error diagnostics end the handler before the
\* write (resource_product.go:347-351, 475-479,
\* resource_organization.go:293-297, 373-377).
CreateBuild(ok) ==
    /\ callee \in ProductHandlers \cup OrganizationHandlers
    /\ createPc = "build"
    /\ IF ok
       THEN createPc' = "create" /\ UNCHANGED respErrors
       ELSE createPc' = "done" /\ AddError("Error building request")
    /\ UNCHANGED <<createFrame, ctxVars, plan, dataID, createResult, stateID, state,
                   createCalls, benefitCalls, remoteLog>>

\* Variant: the error of the primary write is reported and the handler goes
\* on.
CreateCall_goOn(o) ==
    /\ callee \in ProductHandlers \cup OrganizationHandlers
    /\ createPc = "create"
    /\ o \in CallOutcomes(callee)
    /\ ctxDone => o.err # NoErr
    /\ createCalls' = createCalls + 1
    /\ Remote("primary write", <<>>, o.err)
    /\ IF o.err # NoErr
       THEN AddError("Error updating organization") /\ UNCHANGED createResult
       ELSE createResult' = o.product /\ UNCHANGED respErrors
    /\ createPc' = IF callee = "ProductResource.Create" /\ o.err = NoErr THEN "save"
                   ELSE IF HasSupplemental THEN "benefits" ELSE "done"
    /\ UNCHANGED <<createFrame, ctxVars, plan, dataID, stateID, state, benefitCalls>>

\* The primary write: Products.Create, Products.Update or
\* Organizations.Update with the request built from data
\* (resource_product.go:353-360, 481-488,
\* resource_organization.go:299-306, 379-386).  A request under a done
\* context fails.
CreateCall(o) ==
    /\ callee \in ProductHandlers \cup OrganizationHandlers
    /\ createPc = "create"
    /\ o \in CallOutcomes(callee)
    /\ ctxDone => o.err # NoErr
    /\ createCalls' = createCalls + 1
    /\ IF callee = "ProductResource.Create"
       THEN Remote("Products.Create", buildProductCreateRequest(plan), o.err)
       ELSE IF callee = "ProductResource.Update"
       THEN Remote("Products.Update", buildProductUpdateRequest(plan), o.err)
       ELSE Remote("Organizations.Update", buildOrganizationUpdate(plan), o.err)
    /\ IF o.err # NoErr
       THEN /\ AddError(IF callee = "ProductResource.Create" THEN "Error creating product"
                        ELSE IF callee = "ProductResource.Update"
                        THEN "Error updating product"
                        ELSE "Error updating organization")
            /\ createPc' = "done"
            /\ UNCHANGED createResult
       ELSE /\ createResult' = o.product
            /\ createPc' = IF callee = "ProductResource.Create" THEN "save"
                           ELSE IF HasSupplemental THEN "benefits" ELSE "poll"
            /\ UNCHANGED respErrors
    /\ UNCHANGED <<createFrame, ctxVars, plan, dataID, stateID, state, benefitCalls>>

\* Variant: the ID is set on data, the state is written at the end of Create
\* only.
CreateSaveID_late ==
    /\ callee = "ProductResource.Create"
    /\ createPc = "save"
    /\ dataID' = StringValue(createResult.id)
    /\ plan' = [plan EXCEPT !.id = StringValue(createResult.id)]
    /\ createPc' = IF HasSupplemental THEN "benefits" ELSE "poll"
    /\ UNCHANGED <<createFrame, ctxVars, createResult, stateID, state, respErrors,
                   createCalls, benefitCalls, remoteLog>>

\* data.ID = types.StringValue(result.Product.ID); resp.State.Set(ctx, &data)
\* (resource_product.go:368-372), then the test of data.BenefitIDs (375).
CreateSaveID ==
    /\ callee = "ProductResource.Create"
    /\ createPc = "save"
    /\ dataID' = StringValue(createResult.id)
    /\ plan' = [plan EXCEPT !.id = StringValue(createResult.id)]
    /\ stateID' = StringValue(createResult.id)
    /\ state' = [data |-> plan', from |-> createResult]
    /\ createPc' = IF HasSupplemental THEN "benefits" ELSE "poll"
    /\ UNCHANGED <<createFrame, ctxVars, createResult, respErrors,
                   createCalls, benefitCalls, remoteLog>>

\* Variant: a failed supplemental write is followed by a write that undoes
\* the primary one.
CreateBenefits_rollback(o) ==
    /\ callee \in ProductHandlers \cup OrganizationHandlers
    /\ createPc = "benefits"
    /\ o # "diag"
    /\ benefitCalls' = benefitCalls + 1
    /\ IF o = "err"
       THEN /\ remoteLog' = remoteLog \o
                   <<[call |-> "supplemental write", payload |-> <<>>, err |-> ErrOther],
                     [call |-> "compensating write", payload |-> <<>>, err |-> NoErr]>>
            /\ AddError("Error updating subscription settings")
            /\ createPc' = "done"
       ELSE /\ Remote("supplemental write", <<>>, NoErr)
            /\ createPc' = "poll"
            /\ UNCHANGED respErrors
    /\ UNCHANGED <<createFrame, ctxVars, plan, dataID, createResult, stateID, state,
                   createCalls>>

\* The supplemental write.  For a product: extractBenefitIDsFromSet and
\* Products.UpdateBenefits with all the planned IDs
\* (resource_product.go:375-390, 492-508).  For the organization:
\* patchOrgSupplemental with buildSupplementalPayload(data), taken as one
\* call with its retries (resource_organization.go:308-318, 392-402).
\*   "diag"  extractBenefitIDsFromSet added an error: return without the call
\*   "err"   the write returned an error
\*   "ok"    the write succeeded
CreateBenefits(o) ==
    /\ callee \in ProductHandlers \cup OrganizationHandlers
    /\ createPc = "benefits"
    /\ ctxDone => o # "ok"
    /\ o = "diag" => callee \in ProductHandlers
    /\ IF o = "diag"
       THEN /\ AddError("Error reading benefit IDs")
            /\ createPc' = "done"
            /\ UNCHANGED <<benefitCalls, remoteLog>>
       ELSE /\ benefitCalls' = benefitCalls + 1
            /\ IF callee \in ProductHandlers
               THEN Remote("Products.UpdateBenefits", plan.benefitIDs.v,
                           IF o = "err" THEN ErrOther ELSE NoErr)
               ELSE Remote("patchOrgSupplemental", buildSupplementalPayload(plan),
                           IF o = "err" THEN ErrOther ELSE NoErr)
            /\ IF o = "err"
               THEN /\ AddError(IF callee \in ProductHandlers
                                THEN "Error updating product benefits"
                                ELSE "Error updating subscription settings")
                    /\ createPc' = "done"
               ELSE createPc' = "poll" /\ UNCHANGED respErrors
    /\ UNCHANGED <<createFrame, ctxVars, plan, dataID, createResult, stateID, state,
                   createCalls>>

\* The entry of the poller: writeTime := latestTimestamp(result.Product) and
\* pollForConsistency for a product (resource_product.go:393-394, 490,
\* 511), waitForReadConsistency with the plan for the organization
\* (resource_organization.go:321, 405).
CreateStartPoll ==
    /\ callee \in ProductHandlers \cup OrganizationHandlers
    /\ createPc = "poll"
    /\ pollPc = "idle" /\ waitPc = "idle"
    /\ IF callee \in ProductHandlers
       THEN /\ writeTimestamp' = latestTimestamp(createResult)
            /\ pollPc' = "fetch"
            /\ UNCHANGED waitVars
       ELSE /\ planned' = plan
            /\ waitPc' = "fetch"
            /\ UNCHANGED <<writeTimestamp, pollPc, waitI, lastOrg, waitRet>>
    /\ UNCHANGED <<callee, ctxVars, diags, fetchCount, pollI, last, hasResult,
                   lastRejectReason, pollRet, fetchLog, lastFetched, retryVars,
                   fnVars, createVars, claimVars>>

\* The code after the poller returned (resource_product.go:401-414, 515-528,
\* resource_organization.go:322-336, 406-419): an error ends the handler;
\* otherwise mapProductResponseToState or mapOrganizationResponseToState
\* maps the response to data (the poller fetches by the ID of the written
\* resource) and resp.State.Set sets the state.  body holds the attributes
\* of the fetched product the poller does not look at.
CreateAfterPoll ==
    /\ callee \in ProductHandlers \cup OrganizationHandlers
    /\ createPc = "poll"
    /\ createPc' = "done"
    /\ IF callee \in ProductHandlers
       THEN /\ pollPc = "done"
            /\ IF pollRet.err # NoErr
               THEN /\ AddError("Error waiting for product visibility")
                    /\ UNCHANGED <<plan, dataID, stateID, state>>
               ELSE /\ \E body \in {p \in Products :
                                       /\ p.description = StringNull
                                       /\ p.metadata = {}
                                       /\ p.medias = <<>>} :
                          /\ plan' = mapProductResponseToState(body, plan)
                          /\ state' = [data |-> plan', from |-> pollRet.val]
                    /\ dataID' = StringValue(createResult.id)
                    /\ stateID' = StringValue(createResult.id)
                    /\ UNCHANGED respErrors
       ELSE /\ waitPc = "done"
            /\ IF waitRet.err # NoErr
               THEN /\ AddError("Error reading organization after update")
                    /\ UNCHANGED <<plan, dataID, stateID, state>>
               ELSE /\ plan' = mapOrganizationResponseToState(waitRet.org, plan)
                    /\ state' = [data |-> plan', from |-> waitRet.org]
                    /\ dataID' = StringValue("org_1")
                    /\ stateID' = StringValue("org_1")
                    /\ UNCHANGED respErrors
    /\ UNCHANGED <<createFrame, ctxVars, createResult, createCalls, benefitCalls,
                   remoteLog>>

\* Variant: an archived product or meter is mapped to the state like any
\* other.
ReadCall_keepArchived(o) ==
    /\ callee \in {"ProductResource.Read", "MeterResource.Read"}
    /\ createPc = "read"
    /\ o \in CallOutcomes(callee)
    /\ createPc' = "done"
    /\ Remote("Get", <<>>, o.err)
    /\ lastFetched' = [val |-> o.product, err |-> o.err]
    /\ IF o.err # NoErr
       THEN IF isNotFound(o.err)
            THEN state' = Nil /\ stateID' = StringNull /\ UNCHANGED respErrors
            ELSE AddError("Error reading") /\ UNCHANGED <<state, stateID>>
       ELSE /\ state' = [data |-> plan, from |-> o.product]
            /\ UNCHANGED <<stateID, respErrors>>
    /\ UNCHANGED <<callee, ctxVars, fetchCount, diags, writeTimestamp, pollI, pollPc, last,
                   hasResult, lastRejectReason, pollRet, fetchLog, waitVars, retryVars,
                   fnVars, claimVars, plan, dataID, createResult, createCalls,
                   benefitCalls>>

\* Read of a product or a meter (resource_product.go:417-452,
\* resource_meter.go:201-238), on the state Terraform holds; after an Update
\* of a product that ended without error, on the state Update has set and
\* with a context of its own.  A NotFound error (handleNotFoundRemove) and
\* an archived resource remove the resource from the state; another error is
\* reported; otherwise the response is mapped (mapProductResponseToState,
\* mapMeterResponseToState restricted to id and name) and the state is set.
\* lastFetched records what the fetch returned.
ReadCall(o) ==
    /\ \/ callee \in {"ProductResource.Read", "MeterResource.Read"} /\ createPc = "read"
       \/ callee = "ProductResource.Update" /\ createPc = "done" /\ respErrors = <<>>
    /\ callee' = IF callee = "MeterResource.Read" THEN callee ELSE "ProductResource.Read"
    /\ o \in CallOutcomes(callee')
    /\ IF callee = "ProductResource.Update"
       THEN ctxDone' = FALSE /\ ctxErr' = NoErr
       ELSE (ctxDone => o.err # NoErr) /\ UNCHANGED ctxVars
    /\ createPc' = "done"
    /\ Remote(IF callee = "MeterResource.Read" THEN "Meters.Get" ELSE "Products.Get", <<>>,
              o.err)
    /\ lastFetched' = [val |-> o.product, err |-> o.err]
    /\ IF o.err # NoErr
       THEN IF isNotFound(o.err)
            THEN state' = Nil /\ stateID' = StringNull /\ UNCHANGED <<plan, respErrors>>
            ELSE /\ AddError(IF callee = "MeterResource.Read" THEN "Error reading meter"
                             ELSE "Error reading product")
                 /\ UNCHANGED <<plan, state, stateID>>
       ELSE IF callee = "MeterResource.Read"
       THEN IF o.product.archivedAt # NoTime
            THEN state' = Nil /\ stateID' = StringNull /\ UNCHANGED <<plan, respErrors>>
            ELSE /\ plan' = [plan EXCEPT !.id = StringValue(o.product.id),
                                         !.name = StringValue(o.product.name)]
                 /\ state' = [data |-> plan', from |-> o.product]
                 /\ stateID' = plan'.id
                 /\ UNCHANGED respErrors
       ELSE IF o.product.isArchived
            THEN state' = Nil /\ stateID' = StringNull /\ UNCHANGED <<plan, respErrors>>
            ELSE /\ plan' = mapProductResponseToState(o.product, plan)
                 /\ state' = [data |-> plan', from |-> o.product]
                 /\ stateID' = plan'.id
                 /\ UNCHANGED respErrors
    /\ UNCHANGED <<fetchCount, diags, writeTimestamp, pollI, pollPc, last, hasResult,
                   lastRejectReason, pollRet, fetchLog, waitVars, retryVars, fnVars,
                   claimVars, dataID, createResult, createCalls, benefitCalls>>

\* Variant: a NotFound answer to the archiving update is reported like any
\* other error.
DeleteCall_strict(o) ==
    /\ callee \in {"ProductResource.Delete", "MeterResource.Delete"}
    /\ createPc = "delete"
    /\ o \in CallOutcomes(callee)
    /\ createPc' = "done"
    /\ createCalls' = createCalls + 1
    /\ Remote("Update", [isArchived |-> TRUE], o.err)
    /\ IF o.err # NoErr THEN AddError("Error archiving") ELSE UNCHANGED respErrors
    /\ UNCHANGED <<createFrame, ctxVars, plan, dataID, createResult, stateID, state,
                   benefitCalls>>

\* Delete of a product or a meter (resource_product.go:531-558,
\* resource_meter.go:281-308): one update with IsArchived = true.  The
\* handler leaves resp.State alone.
DeleteCall(o) ==
    /\ callee \in {"ProductResource.Delete", "MeterResource.Delete"}
    /\ createPc = "delete"
    /\ o \in CallOutcomes(callee)
    /\ ctxDone => o.err # NoErr
    /\ createPc' = "done"
    /\ createCalls' = createCalls + 1
    /\ Remote(IF callee = "MeterResource.Delete" THEN "Meters.Update" ELSE "Products.Update",
              [isArchived |-> TRUE], o.err)
    /\ IF o.err # NoErr /\ ~isNotFound(o.err)
       THEN AddError(IF callee = "MeterResource.Delete" THEN "Error archiving meter"
                     ELSE "Error archiving product")
       ELSE UNCHANGED respErrors
    /\ UNCHANGED <<createFrame, ctxVars, plan, dataID, createResult, stateID, state,
                   benefitCalls>>

\* The caller's context is cancelled, or its deadline passes, while the
\* handler is not inside the poller.
CreateCancel ==
    /\ createPc \in {"prefetch", "build", "create", "save", "benefits", "poll", "read",
                     "delete"}
    /\ pollPc \in {"idle", "done"}
    /\ waitPc \in {"idle", "done"}
    /\ \E e \in CtxErrs : CtxCancel(e)
    /\ UNCHANGED <<createFrame, createVars>>

CreateNext ==
    \/ \E ok \in BOOLEAN : CreateBuild(ok)
    \/ \E o \in CreateOutcomes : CreateCall(o)
    \/ CreateSaveID
    \/ \E o \in {"diag", "err", "ok"} : CreateBenefits(o)
    \/ CreateStartPoll
    \/ PollNext
    \/ CreateAfterPoll
    \/ CreateCancel

SpecCreate == CreateInit /\ [][CreateNext]_vars

WriteNext ==
    \/ \E e \in {NoErr, ErrNotFound, ErrOther} : CreatePrefetch(e)
    \/ \E ok \in BOOLEAN : CreateBuild(ok)
    \/ \E o \in CallOutcomes(callee) : CreateCall(o)
    \/ CreateSaveID
    \/ \E o \in {"diag", "err", "ok"} : CreateBenefits(o)
    \/ CreateStartPoll
    \/ PollNext
    \/ WaitNext
    \/ CreateAfterPoll
    \/ \E o \in CallOutcomes("ProductResource.Read") \cup CallOutcomes("MeterResource.Read") :
          ReadCall(o)
    \/ \E o \in CallOutcomes("ProductResource.Delete") : DeleteCall(o)
    \/ CreateCancel

SpecWrite == WriteInit /\ [][WriteNext]_vars

(***************************************************************************)
(* Properties                                                              *)
(***************************************************************************)
\* Every fetch so far had an outcome of class c, and there was one.
AllFetches(c) ==
    /\ fetchLog # <<>>
    /\ \A k \in DOMAIN fetchLog : fetchLog[k] = c

\* C1: when every fetch succeeds with a stale result (and the poller is not
\* cancelled), pollForConsistency ends after exactly pollMaxAttempts (10)
\* fetches, not earlier and not later, and returns the result of the last
\* fetch with a nil error and exactly one warning diagnostic.
C1_StaleExhaustion ==
    (AllFetches("stale") /\ pollRet.err \notin CtxErrs) =>
        /\ fetchCount <= pollMaxAttempts
        /\ (pollPc = "done") <=> (fetchCount = pollMaxAttempts)
        /\ pollPc = "done" =>
              /\ pollRet = [val |-> lastFetched.val, err |-> NoErr]
              /\ lastFetched.err = NoErr
              /\ Len(diags) = 1

C1_Witness ==
    /\ pollPc = "done"
    /\ AllFetches("stale")
    /\ fetchCount = 10
    /\ pollRet.err = NoErr
    /\ pollRet.val \in Results
    /\ Len(diags) = 1

\* C2: when the first three fetches return NotFound and the fourth a result
\* whose latest timestamp is not before writeTimestamp, pollForConsistency
\* has returned that result, with a nil error and no warning, after exactly
\* four fetches.
C2_NotFoundThenFresh ==
    (/\ Len(fetchLog) >= 4
     /\ \A k \in 1 .. 3 : fetchLog[k] = "notfound"
     /\ fetchLog[4] = "fresh") =>
        /\ pollPc = "done"
        /\ fetchCount = 4
        /\ lastFetched.err = NoErr
        /\ pollRet = [val |-> lastFetched.val, err |-> NoErr]
        /\ diags = <<>>

C2_Witness ==
    /\ pollPc = "done"
    /\ fetchLog = <<"notfound", "notfound", "notfound", "fresh">>
    /\ latestTimestamp(pollRet.val) = writeTimestamp
    /\ pollRet.err = NoErr

\* C3: when all ten fetches return NotFound, pollForConsistency returns a
\* non-nil error and the zero value and adds no warning diagnostic.
C3_NeverReadable ==
    (/\ Len(fetchLog) >= 10
     /\ \A k \in DOMAIN fetchLog : fetchLog[k] = "notfound") =>
        /\ pollPc = "done"
        /\ fetchCount = 10
        /\ pollRet.err # NoErr
        /\ pollRet.val = Zero
        /\ diags = <<>>

C3_Witness ==
    /\ pollPc = "done"
    /\ Len(fetchLog) = 10
    /\ AllFetches("notfound")
    /\ pollRet.err = ErrNotReadable

\* C4: pollForConsistency returns a result with a nil error and without a
\* warning only if that result came from a fetch and its latest timestamp is
\* not before writeTimestamp.
C4_NoSilentSuccess ==
    (pollPc = "done" /\ pollRet.err = NoErr /\ diags = <<>>) =>
        /\ fetchCount >= 1
        /\ lastFetched.err = NoErr
        /\ pollRet.val = lastFetched.val
        /\ pollRet.val \in Results
        /\ ~(latestTimestamp(pollRet.val) < writeTimestamp)

C4_Witness ==
    /\ pollPc = "done"
    /\ pollRet.err = NoErr
    /\ diags = <<>>
    /\ fetchCount > 1
    /\ latestTimestamp(pollRet.val) > writeTimestamp

\* C5: a poller has fetched at least once when it returns success, also when
\* the first fetched result already satisfies the write timestamp or the
\* acceptance check; for pollForConsistency and waitForReadConsistency.
C5_FetchBeforeSuccess ==
    /\ (pollPc = "done" /\ pollRet.err = NoErr) =>
           (fetchCount >= 1 /\ pollRet.val \in Results)
    /\ (waitPc = "done" /\ waitRet.err = NoErr) =>
           (fetchCount >= 1 /\ waitRet.org \in Organizations)

C5_Witness ==
    /\ pollPc = "done"
    /\ writeTimestamp = 0
    /\ fetchCount = 1
    /\ pollRet.err = NoErr
    /\ diags = <<>>

\* A status that doWithRetry is to retry: 429 or 5xx.
Transient(s) == s = 429 \/ (s >= 500 /\ s <= 599)

StatusErrorTexts ==
    {"HTTP %d: %s", "supplemental HTTP request failed with status %d"}

\* C6: doWithRetry retries only after a 429 or 5xx status; a response with
\* any other non-2xx status is the last one: the operation is not invoked
\* again, no wait follows, and an error is returned.
C6_RetryOnlyTransient ==
    /\ retryPc = "select" => Transient(statusLog[Len(statusLog)])
    /\ \A k \in DOMAIN statusLog :
          /\ k < Len(statusLog) => Transient(statusLog[k])
          /\ (~Transient(statusLog[k]) /\ ~(statusLog[k] >= 200 /\ statusLog[k] < 300)) =>
                /\ k = Len(statusLog)
                /\ retryPc = "done"
                /\ calls = k
                /\ Len(waits) = k - 1
                /\ retryRet.msg \in StatusErrorTexts
                /\ retryRet.status = statusLog[k]
    /\ (statusLog # <<>> /\ ~Transient(statusLog[1])) =>
          (calls = 1 /\ waits = <<>> /\ elapsed = 0 /\ retryPc = "done")

C6_Witness ==
    /\ retryPc = "done"
    /\ statusLog = <<404>>
    /\ calls = 1
    /\ retryRet.status = 404

\* C7: when the operation answers 503 four times and then 2xx, doWithRetry
\* returns nil on the fifth invocation after exactly four waits of 500ms,
\* 750ms, 1125ms and 1687.5ms (500ms x 1.5^k), each between the 500ms floor
\* and the 30s ceiling, and the time waited is at least their sum.
C7_BackoffSchedule ==
    (/\ Len(statusLog) = 5
     /\ \A k \in 1 .. 4 : statusLog[k] = 503
     /\ statusLog[5] >= 200 /\ statusLog[5] < 300) =>
        /\ retryPc = "done"
        /\ retryRet = RetNil
        /\ calls = 5
        /\ waits = << 500 * Millisecond, 750 * Millisecond, 1125 * Millisecond,
                      (3375 * Millisecond) \div 2 >>
        /\ \A k \in DOMAIN waits :
              waits[k] >= 500 * Millisecond /\ waits[k] <= 30 * 1000 * Millisecond
        /\ elapsed >= waits[1] + waits[2] + waits[3] + waits[4]

C7_Witness ==
    /\ retryPc = "done"
    /\ statusLog = <<503, 503, 503, 503, 200>>
    /\ retryRet = RetNil
    /\ Len(waits) = 4

\* C8: doWithRetry invokes the operation at most five times; when all five
\* attempts answer 429 or 5xx it returns an error that carries the status of
\* the last response; it never returns "max retries exceeded".
C8_AttemptCap ==
    /\ calls <= 5
    /\ retryRet # ErrMaxRetries
    /\ retryRet.msg # "max retries exceeded"
    /\ (Len(statusLog) >= 5 /\ \A k \in DOMAIN statusLog : Transient(statusLog[k])) =>
          /\ retryPc = "done"
          /\ calls = 5
          /\ Len(statusLog) = 5
          /\ retryRet.msg \in StatusErrorTexts
          /\ retryRet.status = statusLog[5]
    /\ (/\ retryPc = "done"
        /\ retryRet.msg \in StatusErrorTexts
        /\ \A k \in DOMAIN statusLog : Transient(statusLog[k])) => calls = 5

C8_Witness ==
    /\ retryPc = "done"
    /\ statusLog = <<503, 429, 500, 503, 429>>
    /\ retryRet.status = 429

\* C9: once the context is cancelled while doWithRetry waits in a backoff,
\* doWithRetry does not invoke the operation again and the only way it ends
\* is by returning the context's error.
C9_CancelInBackoff ==
    [][ (retryPc = "select" /\ ctxDone) =>
            /\ calls' = calls
            /\ ctxErr \in CtxErrs
            /\ \/ retryPc' = "select"
               \/ retryPc' = "done" /\ retryRet' = ErrCtx(ctxErr) ]_vars

C9_Witness ==
    /\ retryPc = "done"
    /\ ctxDone
    /\ retryRet.msg \in CtxErrs
    /\ Len(waits) >= 2

\* C10: once the context is cancelled while a poller waits between two
\* fetches, the poller fetches no more and the only way it ends is by
\* returning the context's error with no result and no warning, also when an
\* earlier fetch returned a stale result.
C10_CancelBetweenFetches ==
    [][ /\ (pollPc = "select" /\ ctxDone) =>
              /\ fetchCount' = fetchCount
              /\ diags' = diags
              /\ ctxErr \in CtxErrs
              /\ \/ pollPc' = "select"
                 \/ pollPc' = "done" /\ pollRet' = [val |-> Zero, err |-> ctxErr]
        /\ (waitPc = "select" /\ ctxDone) =>
              /\ fetchCount' = fetchCount
              /\ diags' = diags
              /\ ctxErr \in CtxErrs
              /\ \/ waitPc' = "select"
                 \/ waitPc' = "done" /\ waitRet' = [org |-> NilOrg, err |-> ctxErr] ]_vars

C10_Witness ==
    /\ pollPc = "done"
    /\ hasResult
    /\ last \in Results
    /\ lastRejectReason = "stale read (timestamp before write)"
    /\ pollRet = [val |-> Zero, err |-> ctxErr]
    /\ ctxErr \in CtxErrs
    /\ diags = <<>>

\* The helper c has returned.
Returned(c) == callee = c /\ fnPc = "done"

\* Two strings are decimal numbers of the same value.
DecimalEqual(a, b) ==
    LET da == ParseDecimal(a)
        db == ParseDecimal(b)
    IN  da.ok /\ db.ok /\ da.m = db.m /\ da.e = db.e

\* C16: numericStringsEqual(a, b) is true if and only if both strings parse
\* as decimal numbers and denote the same numeric value: two strings that
\* denote different decimal values are never equal, two strings that denote
\* the same value are always equal.
C16_DecimalEquality ==
    Returned("numericStringsEqual") => (fnRet <=> DecimalEqual(fnArgs.a, fnArgs.b))

\* C13: pricesMatch is symmetric: pricesMatch(p, q) = pricesMatch(q, p) for
\* all price models p and q.
C13_Symmetric ==
    Returned("pricesMatch") => (fnRet.fwd = fnRet.rev)

\* The optional user-set fields that apply to the amount type t.
OptionalFields(t) ==
    IF t = "fixed" THEN {"priceCurrency"}
    ELSE IF t = "custom"
    THEN {"priceCurrency", "minimumAmount", "maximumAmount", "presetAmount"}
    ELSE IF t = "metered_unit" THEN {"priceCurrency", "capAmount"}
    ELSE {}

\* The field is absent on both sides, or set to the same value on both.
SameOptional(a, b) ==
    IF a.isNull \/ a = StringUnknown THEN b.isNull \/ b = StringUnknown
    ELSE ~(b.isNull \/ b = StringUnknown) /\ a.v = b.v

\* C14: pricesMatch(planned, existing) is false when an optional user-set
\* field (price_currency, minimum_amount, maximum_amount, preset_amount,
\* cap_amount) is set on one side to a value the other side does not carry;
\* an absent field matches only an absent field.
C14_NoWildcard ==
    (Returned("pricesMatch") /\ fnRet.fwd) =>
        \A f \in OptionalFields(ValueString(fnArgs.planned.amountType)) :
            SameOptional(fnArgs.planned[f], fnArgs.existing[f])

\* C11: in one pricesToUpdateSDK call each existing remote price is matched
\* to at most one planned price: no existing price ID appears in two entries
\* of the update list.
C11_NoDoubleAssignment ==
    Returned("pricesToUpdateSDK") =>
        \A i \in 1 .. Len(fnRet.result) : \A k \in 1 .. Len(fnRet.result) :
            (/\ i # k
             /\ fnRet.result[i].kind = "existing"
             /\ fnRet.result[k].kind = "existing")
            => fnRet.result[i].id # fnRet.result[k].id

\* Two equal planned prices met a single matching existing price: the first
\* took its ID, the second became a new price.
C11_Witness ==
    /\ Returned("pricesToUpdateSDK")
    /\ Len(fnRet.result) = 2
    /\ fnArgs.planned[1] = fnArgs.planned[2]
    /\ fnRet.result[1].kind = "existing"
    /\ fnRet.result[2].kind = "new"

\* The existing prices entry i of the update list could take: not taken by an
\* entry before it, and matching planned price i.
Free(i) ==
    LET existing == extractExistingPrices(fnArgs.currentPrices)
        taken    == {fnRet.result[k].id :
                        k \in {n \in 1 .. (i - 1) : fnRet.result[n].kind = "existing"}}
    IN  {j \in 1 .. Len(existing) :
            /\ existing[j].id \notin taken
            /\ pricesMatch(fnArgs.planned[i], existing[j].data)}

\* C12: pricesToUpdateSDK is first-fit and order-stable: the update list has
\* one entry per planned price in planned order; entry i is the ID of the
\* lowest-index existing price that is not yet used and matches planned
\* price i, or a new-price definition of planned price i when there is none.
C12_FirstFit ==
    (Returned("pricesToUpdateSDK") /\ ~fnRet.err) =>
        /\ Len(fnRet.result) = Len(fnArgs.planned)
        /\ \A i \in 1 .. Len(fnArgs.planned) :
              IF Free(i) = {}
              THEN fnRet.result[i] = NewPrice(fnArgs.planned[i])
              ELSE \E j \in Free(i) :
                      /\ \A k \in Free(i) : j <= k
                      /\ fnRet.result[i] =
                             ExistingProductPrice(
                                 extractExistingPrices(fnArgs.currentPrices)[j].id)

\* Planned [{fixed,500},{fixed,500}] against existing [A{fixed,500},
\* B{fixed,500}] gave 0 -> A, 1 -> B.
C12_Witness ==
    /\ Returned("pricesToUpdateSDK")
    /\ fnArgs.planned = <<FixedPrice(StringNull, Int64Value(500)),
                          FixedPrice(StringNull, Int64Value(500))>>
    /\ Len(fnArgs.currentPrices) = 2
    /\ \A k \in 1 .. 2 :
          fnArgs.currentPrices[k].price =
              [kind |-> "fixed", priceCurrency |-> "usd", priceAmount |-> 500]
    /\ fnRet.result = <<ExistingProductPrice(fnArgs.currentPrices[1].id),
                        ExistingProductPrice(fnArgs.currentPrices[2].id)>>

\* The planned list equals, position by position under pricesMatch, the
\* list the remote holds.
PlannedEqualsRemote ==
    /\ Len(fnArgs.planned) = Len(fnArgs.currentPrices)
    /\ \A i \in 1 .. Len(fnArgs.planned) :
          /\ fnArgs.currentPrices[i].price.kind # "legacy"
          /\ pricesMatch(fnArgs.planned[i],
                         sdkProductPriceToModel(fnArgs.currentPrices[i].price))

\* C15: when the planned price list equals, position by position under
\* pricesMatch, the price list the remote holds, the update list consists of
\* the existing price IDs, each once and in order, and holds no new price.
C15_IdentityPreserved ==
    (Returned("pricesToUpdateSDK") /\ PlannedEqualsRemote) =>
        /\ ~fnRet.err
        /\ fnRet.result =
               [i \in 1 .. Len(fnArgs.currentPrices) |->
                   ExistingProductPrice(fnArgs.currentPrices[i].id)]

\* An unchanged list of two prices, both equal, was sent back as its IDs.
C15_Witness ==
    /\ Returned("pricesToUpdateSDK")
    /\ PlannedEqualsRemote
    /\ Len(fnArgs.planned) = 2
    /\ fnArgs.planned[1] = fnArgs.planned[2]
    /\ fnRet.result[1] = ExistingProductPrice(fnArgs.currentPrices[1].id)
    /\ fnRet.result[2] = ExistingProductPrice(fnArgs.currentPrices[2].id)

\* A current and a prior price that match in everything but the writing of
\* the unit amount: metered prices of the same meter with the same cap.
SamePriceApartFromFormat(c, pr) ==
    /\ ValueString(c.amountType) = "metered_unit"
    /\ ValueString(pr.amountType) = "metered_unit"
    /\ ValueString(c.meterID) = ValueString(pr.meterID)
    /\ optionalInt64Equal(c.capAmount, pr.capAmount)

\* C17: for a current price and a prior price that match,
\* preserveUnitAmountFormatting replaces the current unit_amount by the prior
\* representation whenever the two are numerically equal, and keeps the
\* current value when they differ numerically: a unit amount the call changed
\* denotes the number it denoted before.
C17_NumericPreserve ==
    Returned("preserveUnitAmountFormatting") =>
        /\ \A i \in 1 .. Len(fnRet) :
              fnRet[i].unitAmount # fnArgs.prices[i].unitAmount =>
                  DecimalEqual(ValueString(fnRet[i].unitAmount),
                               ValueString(fnArgs.prices[i].unitAmount))
        /\ (/\ Len(fnArgs.prices) = 1
            /\ Len(fnArgs.priorPrices) = 1
            /\ SamePriceApartFromFormat(fnArgs.prices[1], fnArgs.priorPrices[1])) =>
               fnRet[1].unitAmount =
                   IF DecimalEqual(ValueString(fnArgs.prices[1].unitAmount),
                                   ValueString(fnArgs.priorPrices[1].unitAmount))
                   THEN fnArgs.priorPrices[1].unitAmount
                   ELSE fnArgs.prices[1].unitAmount

\* valuesEqual of the trailing-slash rule.
UrlValuesEqual(a, b) == TrimRight(a) = TrimRight(b)

\* C18: normalization is idempotent with respect to equality: whenever the
\* current value a is valuesEqual to a prior value b, the representation
\* chosen for a is still valuesEqual to a, for the numeric rule
\* (numericStringsEqual) and for the trailing-slash rule.
C18_IdempotentNormalization ==
    /\ Returned("preserveUnitAmountFormatting") =>
          \A i \in 1 .. Len(fnArgs.prices) : \A j \in 1 .. Len(fnArgs.priorPrices) :
              (/\ ~fnArgs.prices[i].unitAmount.isNull
               /\ ~fnArgs.priorPrices[j].unitAmount.isNull
               /\ numericStringsEqual(ValueString(fnArgs.prices[i].unitAmount),
                                      ValueString(fnArgs.priorPrices[j].unitAmount)))
              => numericStringsEqual(ValueString(fnArgs.prices[i].unitAmount),
                                     ValueString(fnRet[i].unitAmount))
    /\ (/\ Returned("preserveURLFormatting")
        /\ ~fnArgs.current.isNull
        /\ ~fnArgs.prior.isNull
        /\ UrlValuesEqual(ValueString(fnArgs.current), ValueString(fnArgs.prior)))
       => (/\ ~fnRet.isNull
           /\ UrlValuesEqual(ValueString(fnArgs.current), ValueString(fnRet)))

\* A unit amount was rewritten in the writing of a prior price while an
\* earlier prior price of the list is numerically equal to the other current
\* price.
C18_Witness ==
    /\ Returned("preserveUnitAmountFormatting")
    /\ Len(fnArgs.prices) = 2
    /\ \E i \in 1 .. 2 : \E j \in 1 .. Len(fnArgs.priorPrices) :
          /\ fnRet[i].unitAmount # fnArgs.prices[i].unitAmount
          /\ fnRet[i].unitAmount = fnArgs.priorPrices[j].unitAmount
          /\ \E k \in 1 .. (j - 1) :
                /\ ~fnArgs.priorPrices[k].unitAmount.isNull
                /\ ~fnArgs.prices[3 - i].unitAmount.isNull
                /\ fnArgs.priorPrices[k].unitAmount # fnArgs.priorPrices[j].unitAmount
                /\ numericStringsEqual(ValueString(fnArgs.prices[3 - i].unitAmount),
                                       ValueString(fnArgs.priorPrices[k].unitAmount))

\* The bijections of 1 .. n.
Bijections(n) ==
    {f \in [1 .. n -> 1 .. n] : \A a \in 1 .. n : \A b \in 1 .. n : f[a] = f[b] => a = b}

\* C19: formatting preservation is index-free: when the current list is a
\* permutation of the prior list under pricesMatch, every current price
\* receives the unit amount of the prior price it matches, each prior price
\* serving one current price, whatever the positions.
C19_IndexFree ==
    (/\ Returned("preserveUnitAmountFormatting")
     /\ Len(fnArgs.prices) = Len(fnArgs.priorPrices)
     /\ \E f \in Bijections(Len(fnArgs.prices)) :
           \A i \in 1 .. Len(fnArgs.prices) :
               pricesMatch(fnArgs.prices[i], fnArgs.priorPrices[f[i]]))
    => \E f \in Bijections(Len(fnArgs.prices)) :
           \A i \in 1 .. Len(fnArgs.prices) :
               /\ pricesMatch(fnArgs.prices[i], fnArgs.priorPrices[f[i]])
               /\ fnRet[i].unitAmount = fnArgs.priorPrices[f[i]].unitAmount

\* Current [meter_2 "1", meter_1 "0.5"] with prior [meter_1 "0.50",
\* meter_2 "1.00"] gave ["1.00", "0.50"].
C19_Witness ==
    /\ Returned("preserveUnitAmountFormatting")
    /\ Len(fnArgs.prices) = 2
    /\ Len(fnArgs.priorPrices) = 2
    /\ ValueString(fnArgs.prices[1].meterID) = "meter_2"
    /\ ValueString(fnArgs.prices[1].unitAmount) = Chars["1"]
    /\ ValueString(fnArgs.prices[2].meterID) = "meter_1"
    /\ ValueString(fnArgs.prices[2].unitAmount) = Chars["0.5"]
    /\ ValueString(fnArgs.priorPrices[1].meterID) = "meter_1"
    /\ ValueString(fnArgs.priorPrices[1].unitAmount) = Chars["0.50"]
    /\ ValueString(fnArgs.priorPrices[2].meterID) = "meter_2"
    /\ ValueString(fnArgs.priorPrices[2].unitAmount) = Chars["1.00"]
    /\ ValueString(fnRet[1].unitAmount) = Chars["1.00"]
    /\ ValueString(fnRet[2].unitAmount) = Chars["0.50"]

\* Products.Create has succeeded.
Created == createResult # NoProduct

\* A step that makes a remote call after the create call: UpdateBenefits, or
\* the Products.Get of the poller.
LaterRemoteCall == benefitCalls' # benefitCalls \/ fetchCount' # fetchCount

\* C20: in product Create, once the create call has succeeded, the returned
\* product ID is written to state before any further remote call; on every
\* path on which a later step fails (benefits update, consistency poll,
\* cancellation) the state left behind holds the ID of the created product.
C20_IDSavedFirst ==
    /\ [][(Created /\ LaterRemoteCall) => stateID = StringValue(createResult.id)]_vars
    /\ []((createPc = "done" /\ Created) => stateID = StringValue(createResult.id))

\* Create ended with an error after the product was created and a later
\* remote call was made; the state holds the product's ID.
C20_Witness ==
    /\ createPc = "done"
    /\ Created
    /\ respErrors # <<>>
    /\ benefitCalls + fetchCount > 0
    /\ stateID = StringValue(createResult.id)

\* C30: the write timestamp derived from a remote resource is the later of
\* its modification time and its creation time: latestTimestamp(t) equals the
\* maximum of t's creation time and (when present) t's modification time.
C30_LaterOfTimestamps ==
    Returned("latestTimestamp") =>
        fnRet = IF /\ fnArgs.t.modifiedAt # NoTime
                   /\ fnArgs.t.modifiedAt > fnArgs.t.createdAt
                THEN fnArgs.t.modifiedAt
                ELSE fnArgs.t.createdAt

\* C27: for the product resource, an optional attribute left unset in the
\* plan (description, metadata, medias, benefit_ids) never appears in the
\* create or update payload and is never overwritten in the state written
\* after Create, Update and Read, whatever value the remote holds for it.
C27_UnsetProductAttributes ==
    /\ (Returned("buildProductCreateRequest") \/ Returned("buildProductUpdateRequest")) =>
          \A f \in {"description", "metadata", "medias"} :
              fnArgs.data[f].isNull => fnRet[f].isNull
    /\ Returned("mapProductResponseToState") =>
          \A f \in {"description", "metadata", "medias", "benefitIDs"} :
              fnArgs.data[f].isNull => fnRet[f] = fnArgs.data[f]

\* C26: for the organization resource, a field or settings block left unset
\* in the plan (name, avatar_url, email, website, socials, feature,
\* subscription, notification and customer-email settings) never appears in
\* the update payload or the supplemental payload, and is still unset in the
\* state written after Create, Update and Read, whatever value the remote
\* holds for it.
C26_UnsetOrganizationFields ==
    /\ Returned("buildOrganizationUpdate") =>
          /\ \A f \in {"name", "avatarURL", "email", "website", "socials"} :
                fnArgs.data[f].isNull => fnRet.update[f].isNull
          /\ \A f \in {"featureSettings", "notificationSettings", "customerEmailSettings"} :
                fnArgs.data[f] = Nil => fnRet.update[f] = Nil
          /\ "subscriptionSettings" \notin DOMAIN fnRet.update
          /\ fnArgs.data.subscriptionSettings = Nil =>
                fnRet.supplemental.subscriptionSettings = Nil
    /\ Returned("mapOrganizationResponseToState") =>
          /\ \A f \in {"name", "avatarURL", "email", "website", "socials"} :
                fnArgs.data[f].isNull => fnRet[f].isNull
          /\ \A f \in {"featureSettings", "subscriptionSettings", "notificationSettings",
                       "customerEmailSettings"} :
                fnArgs.data[f] = Nil => fnRet[f] = Nil

\* A model with the name and the feature settings unset and the email set
\* was mapped from an organization that has both: the email was taken, the
\* name and the block stayed unset.
C26_Witness ==
    /\ Returned("mapOrganizationResponseToState")
    /\ fnArgs.data.name.isNull
    /\ fnArgs.data.featureSettings = Nil
    /\ fnArgs.org.featureSettings # Nil
    /\ ~fnArgs.data.email.isNull
    /\ fnRet.email = fnArgs.org.email
    /\ fnRet.name.isNull
    /\ fnRet.featureSettings = Nil

\* The primary write of the handler has returned an error.
PrimaryFailed ==
    /\ respErrors # <<>>
    /\ respErrors[Len(respErrors)] \in
           {"Error creating product", "Error updating product",
            "Error updating organization"}

\* The state holds what it held when the handler was entered: nothing, or
\* the model of the last apply.
StateUntouched == state = Nil \/ state.from = Nil

\* C21: any error from the primary write is fatal: when the primary create
\* or update call returns an error, Create/Update reports an error
\* diagnostic, makes no further remote call (no supplemental write, no
\* poll) and writes no new state; for Create and Update of a product and of
\* the organization.
C21_PrimaryErrorFatal ==
    PrimaryFailed =>
        /\ createPc = "done"
        /\ Len(respErrors) = 1
        /\ createCalls = 1
        /\ remoteLog[Len(remoteLog)].call \in
               {"Products.Create", "Products.Update", "Organizations.Update"}
        /\ benefitCalls = 0
        /\ fetchCount = 0
        /\ pollPc = "idle" /\ waitPc = "idle"
        /\ StateUntouched
        /\ stateID = IF callee \in {"ProductResource.Create", "OrganizationResource.Create"}
                     THEN StringNull ELSE dataID

\* Create of the organization found the organization, and its
\* Organizations.Update failed although subscription settings were planned.
C21_Witness ==
    /\ callee = "OrganizationResource.Create"
    /\ createPc = "done"
    /\ PrimaryFailed
    /\ HasSupplemental
    /\ Len(remoteLog) = 2
    /\ ~ctxDone

\* The poller of the handler made pollMaxAttempts fetches, at least one of
\* them with a result, and accepted none: the soft timeout.
SoftTimeout ==
    IF callee \in ProductHandlers
    THEN pollPc = "done" /\ pollI = pollMaxAttempts /\ hasResult
    ELSE waitPc = "done" /\ waitI = pollMaxAttempts

\* C22: a poll soft-timeout is never fatal: when the writes of a Create or
\* Update succeeded and the poll exhausts its attempts after at least one
\* successful fetch, the operation ends with a warning and no error
\* diagnostic, and the state is set from the last fetched response; for
\* Create and Update of a product and of the organization.
C22_SoftTimeoutNotFatal ==
    (callee \in ProductHandlers \cup OrganizationHandlers /\ SoftTimeout) =>
        /\ fetchCount = pollMaxAttempts
        /\ Len(diags) = 1
        /\ diags[1].summary = "Eventual consistency timeout"
        /\ respErrors = <<>>
        /\ createPc = "done" =>
              /\ state # Nil
              /\ state.from = IF callee \in ProductHandlers THEN last ELSE lastOrg
              /\ (callee \in ProductHandlers /\ lastFetched.err = NoErr) =>
                     state.from = lastFetched.val
              /\ state.from \in Results \cup Organizations
              /\ state.data = plan
              /\ callee \in ProductHandlers =>
                     /\ state.data.id = StringValue("product_1")
                     /\ state.data.name = StringValue("name_2")
              /\ callee \in OrganizationHandlers =>
                     state.data = mapOrganizationResponseToState(state.from, planned)

\* Update of a product wrote the product and its benefits, ten fetches
\* returned the product as it was before the write, and Update has set the
\* state from the last of them.
C22_Witness ==
    /\ callee = "ProductResource.Update"
    /\ createPc = "done"
    /\ SoftTimeout
    /\ benefitCalls = 1
    /\ writeTimestamp = 2
    /\ state.from = [createdAt |-> 0, modifiedAt |-> 1]
    /\ respErrors = <<>>

\* The supplemental write of the handler has returned an error.
SupplementalFailed ==
    /\ respErrors # <<>>
    /\ respErrors[Len(respErrors)] \in
           {"Error updating product benefits", "Error updating subscription settings"}

\* C23: when the supplemental write (UpdateBenefits of a product, the
\* supplemental PATCH of the organization) fails after the primary write
\* succeeded, the operation reports an error and stops, and makes no remote
\* write afterwards: the primary write is not rolled back and no
\* compensating call is made.
C23_NoRollback ==
    SupplementalFailed =>
        /\ createPc = "done"
        /\ Len(respErrors) = 1
        /\ createCalls = 1
        /\ benefitCalls = 1
        /\ Len(remoteLog) >= 2
        /\ remoteLog[Len(remoteLog)].call \in
               {"Products.UpdateBenefits", "patchOrgSupplemental"}
        /\ remoteLog[Len(remoteLog) - 1].call \in
               {"Products.Create", "Products.Update", "Organizations.Update"}
        /\ fetchCount = 0
        /\ pollPc = "idle" /\ waitPc = "idle"

\* Update of the organization wrote the organization, and the supplemental
\* PATCH of the subscription settings failed.
C23_Witness ==
    /\ callee = "OrganizationResource.Update"
    /\ createPc = "done"
    /\ SupplementalFailed
    /\ remoteLog[1].call = "Organizations.Update"
    /\ remoteLog[2].payload =
           [subscriptionSettings |-> [prorationBehavior |-> "prorate"]]
    /\ ~ctxDone

\* C28: omitting benefit_ids leaves benefits unmanaged.  When benefit_ids is
\* null in the plan, Create and Update of a product never call
\* UpdateBenefits, and benefit_ids is null in the state they set whatever
\* benefits the fetched product has; when benefit_ids is set, also to the
\* empty set, UpdateBenefits is called exactly once, after the primary
\* write succeeded, with all the planned IDs.
C28_BenefitsUnmanaged ==
    /\ [][(callee \in ProductHandlers /\ benefitCalls' # benefitCalls) =>
             /\ ~plan.benefitIDs.isNull
             /\ benefitCalls = 0
             /\ createCalls = 1 /\ createResult # NoProduct
             /\ \E e \in {NoErr, ErrOther} :
                   remoteLog' = Append(remoteLog, [call    |-> "Products.UpdateBenefits",
                                                  payload |-> plan.benefitIDs.v,
                                                  err     |-> e])]_vars
    /\ []((callee \in ProductHandlers /\ createPc = "poll") =>
             /\ benefitCalls = IF plan.benefitIDs.isNull THEN 0 ELSE 1
             /\ \A k \in DOMAIN remoteLog :
                   remoteLog[k].call = "Products.UpdateBenefits" =>
                       /\ k = Len(remoteLog)
                       /\ remoteLog[k].payload = plan.benefitIDs.v)
    /\ []((callee \in ProductHandlers /\ createPc = "done" /\ respErrors = <<>>) =>
             /\ benefitCalls <= 1
             /\ benefitCalls = 0 <=> state.data.benefitIDs.isNull)

\* Create of a product with benefit_ids set to the empty set has called
\* UpdateBenefits once, with no ID, and has set the state.
C28_Witness ==
    /\ callee = "ProductResource.Create"
    /\ createPc = "done"
    /\ respErrors = <<>>
    /\ benefitCalls = 1
    /\ remoteLog[2] = [call |-> "Products.UpdateBenefits", payload |-> {}, err |-> NoErr]
    /\ state.data.benefitIDs = [isNull |-> FALSE, v |-> {"benefit_2"}]
    /\ state.from \in Results

\* The fetched product or meter is archived.
Archived(v) == IF "archivedAt" \in DOMAIN v THEN v.archivedAt # NoTime ELSE v.isArchived

C25_DeleteArchivesOnce ==
    (callee \in {"ProductResource.Delete", "MeterResource.Delete"} /\ createPc = "done") =>
        /\ Len(remoteLog) = 1
        /\ remoteLog[1].call =
               IF callee = "MeterResource.Delete" THEN "Meters.Update" ELSE "Products.Update"
        /\ remoteLog[1].payload = [isArchived |-> TRUE]
        /\ fetchCount = 0 /\ benefitCalls = 0
        /\ IF remoteLog[1].err \in {NoErr, ErrNotFound}
           THEN respErrors = <<>>
           ELSE Len(respErrors) = 1
        /\ state.from = Nil

\* Delete of a product got a NotFound answer to the archiving update and
\* ended without an error.
C25_Witness ==
    /\ callee = "ProductResource.Delete"
    /\ createPc = "done"
    /\ remoteLog = <<[call |-> "Products.Update", payload |-> [isArchived |-> TRUE],
                      err |-> ErrNotFound]>>
    /\ respErrors = <<>>
    /\ ~ctxDone

\* C29: setting is_archived = true archives a product while keeping it in
\* the Terraform state: after an Update that sent is_archived = true and
\* succeeded, a Read that fetches the product, archived as the Update left
\* it, keeps the resource in the state with is_archived = true.
C29_ArchivedKept ==
    (/\ callee = "ProductResource.Read"
     /\ createPc = "done"
     /\ \E k \in DOMAIN remoteLog :
           /\ remoteLog[k].call = "Products.Update"
           /\ remoteLog[k].err = NoErr
           /\ remoteLog[k].payload.isArchived
     /\ lastFetched.err = NoErr
     /\ lastFetched.val.isArchived) =>
        /\ state # Nil
        /\ state.data.isArchived = BoolValue(TRUE)

\* C31: pollForConsistency retries only the outcomes "not yet visible"
\* (NotFound, stale read); a fetch error of any other class is returned to the
\* caller on its first occurrence, with no further fetch, no warning and no
\* result, also when an earlier fetch had succeeded with a stale result.
C31_OtherErrorsSurface ==
    (callee = "pollForConsistency" /\ \E k \in DOMAIN fetchLog : fetchLog[k] = "error") =>
        /\ \A k \in DOMAIN fetchLog : fetchLog[k] = "error" => k = Len(fetchLog)
        /\ fetchCount = Len(fetchLog)
        /\ pollPc = "done"
        /\ lastFetched.err \notin {NoErr, ErrNotFound}
        /\ pollRet = [val |-> Zero, err |-> lastFetched.err]
        /\ diags = <<>>

\* A stale result, a NotFound, then another error: the poller returned the
\* error and dropped the stale result it held.
C31_Witness ==
    /\ callee = "pollForConsistency"
    /\ fetchLog = <<"stale", "notfound", "error">>
    /\ pollPc = "done"
    /\ hasResult
    /\ last \in Results
    /\ pollRet = [val |-> Zero, err |-> ErrOther]

\* C32: every poller treats a NotFound response as "not yet visible": on
\* NotFound it keeps polling until the attempt cap and never returns the
\* NotFound error to its caller; for pollForConsistency and
\* waitForReadConsistency.
C32_NotFoundRetried ==
    /\ (callee = "pollForConsistency" /\ pollPc = "done") => pollRet.err # ErrNotFound
    /\ (callee = "waitForReadConsistency" /\ waitPc = "done") => waitRet.err # ErrNotFound

\* C33: in predicate mode, when all 10 fetches succeed and the acceptance
\* check rejects every one of them, the poller returns the last fetched
\* result together with a soft warning and no error; for pollForVisibility.
C33_PredicateSoftTimeout ==
    (/\ callee = "pollForVisibility"
     /\ Len(fetchLog) = pollMaxAttempts
     /\ \A k \in DOMAIN fetchLog : fetchLog[k] = "rejected") =>
        /\ waitPc = "done"
        /\ waitRet.err = NoErr
        /\ waitRet.org \in Organizations
        /\ Len(diags) = 1


(***************************************************************************)
(* PolarProviderData.ClaimOrganization (provider.go:43-63), called by      *)
(* several goroutines on one provider.  sync.Once is a done flag and a     *)
(* mutex: Do loads the flag and, while it is unset, locks the mutex, loads *)
(* the flag again, runs f, stores the flag and unlocks.  The completion of *)
(* f happens before any Do returns, so the comparison after Do reads the   *)
(* orgID that f wrote.                                                     *)
(***************************************************************************)
MaxClaimers == 3                  \* the goroutines calling ClaimOrganization

ErrAlreadyManaging == "only one polar_organization resource is allowed per provider"

ClaimInit ==
    /\ callee = "ClaimOrganization"
    /\ CtxInit
    /\ diags = <<>>
    /\ fetchCount = 0
    /\ PollIdle
    /\ WaitIdle
    /\ RetryIdle
    /\ FnIdle
    /\ CreateIdle
    /\ orgOnce = [done |-> FALSE, m |-> 0]
    /\ orgID = ""
    /\ claimArg \in [1..MaxClaimers -> {"org_1", "org_2"}]
    /\ claimPc = [g \in 1..MaxClaimers |-> "do"]
    /\ claimRet = [g \in 1..MaxClaimers |-> NoErr]

\* pd.orgOnce.Do: the load of the done flag on entry.
OnceDo(g) ==
    /\ callee = "ClaimOrganization"
    /\ claimPc[g] = "do"
    /\ claimPc' = [claimPc EXCEPT ![g] = IF orgOnce.done THEN "check" ELSE "slow"]
    /\ UNCHANGED <<callee, ctxVars, diags, fetchCount, pollVars, waitVars, retryVars,
                   fnVars, createVars, orgOnce, orgID, claimArg, claimRet>>

\* Variant: the slow path runs f without taking the mutex.
OnceDoSlow_unlocked(g) ==
    /\ callee = "ClaimOrganization"
    /\ \/ /\ claimPc[g] = "slow"
          /\ claimPc' = [claimPc EXCEPT ![g] = IF orgOnce.done THEN "unlock" ELSE "f"]
          /\ UNCHANGED <<orgID, orgOnce>>
       \/ /\ claimPc[g] = "f"
          /\ orgID' = claimArg[g]
          /\ claimPc' = [claimPc EXCEPT ![g] = "store"]
          /\ UNCHANGED orgOnce
       \/ /\ claimPc[g] = "store"
          /\ orgOnce' = [orgOnce EXCEPT !.done = TRUE]
          /\ claimPc' = [claimPc EXCEPT ![g] = "unlock"]
          /\ UNCHANGED orgID
       \/ /\ claimPc[g] = "unlock"
          /\ claimPc' = [claimPc EXCEPT ![g] = "check"]
          /\ UNCHANGED <<orgID, orgOnce>>
    /\ UNCHANGED <<callee, ctxVars, diags, fetchCount, pollVars, waitVars, retryVars,
                   fnVars, createVars, claimArg, claimRet>>

\* The slow path of Do: lock, load the flag again, f (pd.orgID = id), store
\* the flag, unlock.
OnceDoSlow(g) ==
    /\ callee = "ClaimOrganization"
    /\ \/ /\ claimPc[g] = "slow"
          /\ orgOnce.m = 0
          /\ orgOnce' = [orgOnce EXCEPT !.m = g]
          /\ claimPc' = [claimPc EXCEPT ![g] = IF orgOnce.done THEN "unlock" ELSE "f"]
          /\ UNCHANGED orgID
       \/ /\ claimPc[g] = "f"
          /\ orgID' = claimArg[g]
          /\ claimPc' = [claimPc EXCEPT ![g] = "store"]
          /\ UNCHANGED orgOnce
       \/ /\ claimPc[g] = "store"
          /\ orgOnce' = [orgOnce EXCEPT !.done = TRUE]
          /\ claimPc' = [claimPc EXCEPT ![g] = "unlock"]
          /\ UNCHANGED orgID
       \/ /\ claimPc[g] = "unlock"
          /\ orgOnce' = [orgOnce EXCEPT !.m = 0]
          /\ claimPc' = [claimPc EXCEPT ![g] = "check"]
          /\ UNCHANGED orgID
    /\ UNCHANGED <<callee, ctxVars, diags, fetchCount, pollVars, waitVars, retryVars,
                   fnVars, createVars, claimArg, claimRet>>

\* if pd.orgID != id { return fmt.Errorf(...) }; return nil
ClaimCheck(g) ==
    /\ callee = "ClaimOrganization"
    /\ claimPc[g] = "check"
    /\ claimRet' = [claimRet EXCEPT ![g] = IF orgID # claimArg[g] THEN ErrAlreadyManaging
                                           ELSE NoErr]
    /\ claimPc' = [claimPc EXCEPT ![g] = "done"]
    /\ UNCHANGED <<callee, ctxVars, diags, fetchCount, pollVars, waitVars, retryVars,
                   fnVars, createVars, orgOnce, orgID, claimArg>>

ClaimNext == \E g \in 1..MaxClaimers : OnceDo(g) \/ OnceDoSlow(g) \/ ClaimCheck(g)

SpecClaim == ClaimInit /\ [][ClaimNext]_vars

\* The calls that have returned.
ClaimReturned == {g \in 1..MaxClaimers : claimPc[g] = "done"}

\* C34: under every interleaving of concurrent ClaimOrganization calls on one
\* provider, an organization ID is recorded exactly when the once-initialisation
\* has run, a recorded ID never changes, no call returns before an ID is
\* recorded, and a returned call returned nil when it passed the recorded ID
\* and an error when it passed another one.
C34_SingletonGuard ==
    /\ [](orgOnce.done => orgID # "")
    /\ [][orgID # "" => orgID' = orgID]_vars
    /\ [](\A g \in ClaimReturned :
             /\ orgOnce.done
             /\ claimArg[g] = orgID => claimRet[g] = NoErr
             /\ claimArg[g] # orgID => claimRet[g] = ErrAlreadyManaging)

\* Every call has returned, one of them with nil and one with the error.
C34_Witness ==
    /\ ClaimReturned = 1..MaxClaimers
    /\ \E g \in ClaimReturned : claimRet[g] = NoErr
    /\ \E g \in ClaimReturned : claimRet[g] = ErrAlreadyManaging

\* C35: Update of a product calls Products.Get before it builds the request and
\* before any other remote call; when that call fails, with NotFound too,
\* Update ends with an error diagnostic, has made no other remote call and no
\* write, and the state is the prior one.
C35_PrefetchFirst ==
    callee = "ProductResource.Update" =>
        /\ createPc # "prefetch" =>
               remoteLog # <<>> /\ remoteLog[1].call = "Products.Get"
        /\ createPc = "prefetch" => remoteLog = <<>> /\ createCalls = 0
        /\ (remoteLog # <<>> /\ remoteLog[1].err # NoErr) =>
               /\ createPc = "done"
               /\ respErrors = <<"Error reading product for update">>
               /\ Len(remoteLog) = 1
               /\ createCalls = 0 /\ benefitCalls = 0
               /\ state = [data |-> plan, from |-> Nil]
               /\ stateID = dataID

\* Update whose pre-fetch answered NotFound has ended.
C35_Witness ==
    /\ callee = "ProductResource.Update"
    /\ createPc = "done"
    /\ remoteLog # <<>> /\ remoteLog[1].err = ErrNotFound

\* C36: when Create or Update of a product with benefit_ids set has ended
\* without error and without warning, the response mapped into state reflects
\* the benefits write of that pass: the benefit_ids in state are the ones
\* Products.UpdateBenefits was called with.
C36_BenefitsWriteCovered ==
    (/\ callee \in {"ProductResource.Create", "ProductResource.Update"}
     /\ createPc = "done"
     /\ respErrors = <<>> /\ diags = <<>>
     /\ benefitCalls = 1) =>
        \E k \in DOMAIN remoteLog :
            /\ remoteLog[k].call = "Products.UpdateBenefits"
            /\ remoteLog[k].err = NoErr
            /\ state.data.benefitIDs = [isNull |-> FALSE, v |-> remoteLog[k].payload]

\* The organization carries the planned value of every field the plan sets.
CarriesPlanned(org, pl) ==
    /\ ~pl.name.isNull => org.name = ValueString(pl.name)
    /\ pl.featureSettings # Nil =>
           /\ org.featureSettings # Nil
           /\ derefBool(org.featureSettings.issueFundingEnabled)
                  = ValueBool(pl.featureSettings.issueFundingEnabled)
    /\ pl.subscriptionSettings # Nil =>
           org.prorationBehavior = ValueString(pl.subscriptionSettings.prorationBehavior)
    /\ pl.notificationSettings # Nil =>
           org.newOrder = ValueBool(pl.notificationSettings.newOrder)
    /\ pl.customerEmailSettings # Nil =>
           org.orderConfirmation = ValueBool(pl.customerEmailSettings.orderConfirmation)

\* C37: waitForReadConsistency returns a response without a warning only if,
\* for every field set in the plan, the returned organization carries the
\* planned value of that field.
C37_ReturnedMatchesPlan ==
    (/\ callee = "waitForReadConsistency"
     /\ waitPc = "done"
     /\ waitRet.err = NoErr
     /\ diags = <<>>) => CarriesPlanned(waitRet.org, planned)

\* C38: preserveUnitAmountFormatting changes representation only: the list
\* keeps its length and order, nothing but unit_amount differs, a null
\* unit_amount stays null, every unit_amount denotes the number it denoted
\* before the call, a price no prior price matches is untouched, and each
\* prior price gives its formatting to at most one current price.
C38_RepresentationOnly ==
    Returned("preserveUnitAmountFormatting") =>
        LET ps      == fnArgs.prices
            qs      == fnArgs.priorPrices
            changed == {i \in 1 .. Len(ps) : fnRet[i] # ps[i]}
        IN  /\ Len(fnRet) = Len(ps)
            /\ \A i \in 1 .. Len(ps) :
                  /\ [fnRet[i] EXCEPT !.unitAmount = ps[i].unitAmount] = ps[i]
                  /\ fnRet[i].unitAmount.isNull <=> ps[i].unitAmount.isNull
                  /\ ps[i].unitAmount.isNull => fnRet[i] = ps[i]
                  /\ ~ps[i].unitAmount.isNull =>
                         DecimalEqual(ValueString(fnRet[i].unitAmount),
                                      ValueString(ps[i].unitAmount))
                  /\ (\A j \in 1 .. Len(qs) : ~pricesMatch(ps[i], qs[j])) =>
                         fnRet[i] = ps[i]
            /\ \E f \in [changed -> 1 .. Len(qs)] :
                  /\ \A a \in changed : \A b \in changed : f[a] = f[b] => a = b
                  /\ \A i \in changed :
                        /\ pricesMatch(ps[i], qs[f[i]])
                        /\ fnRet[i].unitAmount = qs[f[i]].unitAmount

\* The string a ends with at least n characters "/".
EndsWithSlashes(a, n) ==
    n <= Len(a) /\ \A k \in (Len(a) - n + 1) .. Len(a) : a[k] = "/"

\* a and b are one string followed by some number of "/" each.
DifferInTrailingSlashesOnly(a, b) ==
    \E n \in 0 .. Len(a) : \E m \in 0 .. Len(b) :
        /\ EndsWithSlashes(a, n)
        /\ EndsWithSlashes(b, m)
        /\ SubSeq(a, 1, Len(a) - n) = SubSeq(b, 1, Len(b) - m)

C40_ClosedExactlyOnce ==
    callee \in RetryCallees => \A k \in DOMAIN closes : closes[k] = 1

====
